---- MODULE Spec2Model ----
(***************************************************************************)
(* Lingogo: the spaced-repetition review engine and the practice-session   *)
(* coordinator that calls it.                                              *)
(*                                                                         *)
(* The coordinator (useDataOperations.updatePhraseMasteryAndCache,         *)
(* App.handlePracticeUpdateMastery, App.transitionToNext and               *)
(* LeechModal.handleLeechAction) is translated from the sources.  The      *)
(* engine it imports, services/srsService (updatePhraseMastery, isLeech,   *)
(* isPhraseMastered, selectNextPhrase), is not among the sources; it is    *)
(* written here from sections 4.1-4.4 of the specification.                *)
(*                                                                         *)
(* Time is counted in minutes (the sources count milliseconds: one unit    *)
(* here is 60000 ms), so that 30 days stays a small integer.               *)
(***************************************************************************)
EXTENDS Integers, Sequences, FiniteSets, TLC

\* ---------------------------------------------------------------- bounds
MaxLog == 2           \* reviews started in one session
MaxTicks == 1         \* clock steps of Tick minutes in one session
SessionStart == 43200 \* the clock when the session starts (earlier sessions ran at 0)
MaxHistory == 4       \* reviews of the first phrase before the session, engine on its own
MaxPool == 3          \* phrases stored, selector on its own

\* ------------------------------------------------- constants of the engine
MAX_TIER == 7
PROMOTION_THRESHOLD == 2
MASTERY_TIER == 5
LEECH_THRESHOLD == 4
RETRY_SHORT_MINUTES == 10
POSTPONE_MINUTES == 1440
PRACTICE_REVIEW_LOG_LIMIT == 5000

Null == -1            \* lastReviewedAt: null (never reviewed)
NoPhrase == [id |-> 0]   \* a Phrase | null state holding null
AllCategories == 0       \* practiceCategoryFilter: 'all' (category ids are positive)

PhraseIds == {1, 2}    \* the working set holds two phrases
CategoryIds == {1}     \* every phrase of the working set belongs to one category
ReviewActions == {"know", "forgot", "dont_know"}
FailureActions == {"forgot", "dont_know"}
LeechActions == {"continue", "reset", "postpone"}

Min(a, b) == IF a <= b THEN a ELSE b
Max(a, b) == IF a >= b THEN a ELSE b

VARIABLES
  allPhrases,             \* useDataOperations: Phrase[] (the stored items, in pool order)
  categories,             \* useDataOperations: the categories value handed to the engine
  enabledCategories,      \* settings.enabledCategories
  currentPracticePhrase,  \* useDataOperations: Phrase | null
  practiceReviewLog,      \* useDataOperations: PracticeReviewLogEntry[]
  inflight,               \* updatePhraseMasteryAndCache calls suspended at their await
  isLeechModalOpen,       \* useLeechModal
  leechPhrase,            \* useLeechModal
  leechCall,              \* the locals of the most recent handleLeechAction call
  practiceIsExitingRef,   \* App: practiceIsExitingRef.current
  pendingTransition,      \* the closure of the 250 ms timer of transitionToNext
  selectCalls,            \* the arguments and results of the last two selectNextPhrase calls
  rejectedCall,           \* the most recent engine call that threw, with its error
  backgroundSync,         \* loadUserData: the background fetchInitialData and its result
  cardHistory,            \* App: cardHistory, the ids of the cards shown before this one
  transitionTimers,       \* the closures of the pending 250 ms timers, oldest first
  lastCall,               \* the most recent call of a practice handler and what it did
  toast,                  \* the message key of the toast shown last
  practiceCategoryFilter, \* App: practiceCategoryFilter, AllCategories or a category id
  apiProviderType,        \* useDataOperations: the type of the active AI provider, or null
  apiCall,                \* the locals of the most recent callApiWithFallback call
  now                     \* Date.now(), in minutes

vars == <<allPhrases, categories, enabledCategories, currentPracticePhrase,
          practiceReviewLog, inflight, isLeechModalOpen, leechPhrase, leechCall,
          practiceIsExitingRef, pendingTransition, selectCalls, rejectedCall,
          backgroundSync, cardHistory, transitionTimers, lastCall, toast,
          practiceCategoryFilter, apiProviderType, apiCall, now>>

\* The state that only the specifications of the card transitions, of the category
\* filter and of the AI provider follow.
surfaceVars == <<cardHistory, transitionTimers, lastCall, practiceCategoryFilter,
                 apiProviderType, apiCall>>

\* ------------------------------------------------------------ the engine
\* Interval Policy whose tier 0 schedules the next review at once.
IntervalPolicy_NoWait(masteryLevel) ==
  CASE masteryLevel = 0 -> 0
    [] masteryLevel = 1 -> 60
    [] masteryLevel = 2 -> 480
    [] masteryLevel = 3 -> 1440
    [] masteryLevel = 4 -> 4320
    [] masteryLevel = 5 -> 10080
    [] masteryLevel = 6 -> 20160
    [] OTHER -> 43200

\* Interval Policy: tier -> minutes until the next review.
IntervalPolicy(masteryLevel) ==
  CASE masteryLevel = 0 -> 10
    [] masteryLevel = 1 -> 60
    [] masteryLevel = 2 -> 480
    [] masteryLevel = 3 -> 1440
    [] masteryLevel = 4 -> 4320
    [] masteryLevel = 5 -> 10080
    [] masteryLevel = 6 -> 20160
    [] OTHER -> 43200

\* Leech Detector.
isLeech(phrase) == phrase.lapses >= LEECH_THRESHOLD

\* The group-enabled predicate the engine derives from its categories argument.
groupEnabledPredicate(cats, groupId) == cats[groupId]

\* isPhraseMastered that looks at the counters only.
isPhraseMastered_IgnoresGroup(phrase, cats) == phrase.masteryLevel >= MASTERY_TIER

isPhraseMastered(phrase, cats) ==
  phrase.masteryLevel >= MASTERY_TIER /\ groupEnabledPredicate(cats, phrase.category)

\* updatePhraseMastery whose dont_know action counts two lapses.
updatePhraseMastery_DoubleWeight(phrase, action, cats, t) ==
  LET streak == IF action = "know" THEN phrase.knowStreak + 1 ELSE 0
      level == IF action = "know"
               THEN IF streak % PROMOTION_THRESHOLD = 0
                    THEN Min(phrase.masteryLevel + 1, MAX_TIER)
                    ELSE phrase.masteryLevel
               ELSE phrase.masteryLevel \div 2
      moved == [phrase EXCEPT
                  !.masteryLevel = level,
                  !.knowStreak = streak,
                  !.knowCount = IF action = "know" THEN @ + 1 ELSE @,
                  !.lapses = IF action = "know" THEN @
                             ELSE IF action = "dont_know" THEN @ + 2 ELSE @ + 1,
                  !.lastReviewedAt = t,
                  !.nextReviewAt = t + IntervalPolicy(level)]
  IN [moved EXCEPT !.isMastered = isPhraseMastered(moved, cats)]

\* updatePhraseMastery that promotes past MAX_TIER.
updatePhraseMastery_NoClamp(phrase, action, cats, t) ==
  LET streak == IF action = "know" THEN phrase.knowStreak + 1 ELSE 0
      level == IF action = "know"
               THEN IF streak % PROMOTION_THRESHOLD = 0
                    THEN phrase.masteryLevel + 1
                    ELSE phrase.masteryLevel
               ELSE phrase.masteryLevel \div 2
      moved == [phrase EXCEPT
                  !.masteryLevel = level,
                  !.knowStreak = streak,
                  !.knowCount = IF action = "know" THEN @ + 1 ELSE @,
                  !.lapses = IF action = "know" THEN @ ELSE @ + 1,
                  !.lastReviewedAt = t,
                  !.nextReviewAt = t + IntervalPolicy(level)]
  IN [moved EXCEPT !.isMastered = isPhraseMastered(moved, cats)]

\* updatePhraseMastery whose forgot action leaves knowStreak as it is.
updatePhraseMastery_KeepsStreak(phrase, action, cats, t) ==
  LET streak == IF action = "know" THEN phrase.knowStreak + 1
                ELSE IF action = "dont_know" THEN 0 ELSE phrase.knowStreak
      level == IF action = "know"
               THEN IF streak % PROMOTION_THRESHOLD = 0
                    THEN Min(phrase.masteryLevel + 1, MAX_TIER)
                    ELSE phrase.masteryLevel
               ELSE phrase.masteryLevel \div 2
      moved == [phrase EXCEPT
                  !.masteryLevel = level,
                  !.knowStreak = streak,
                  !.knowCount = IF action = "know" THEN @ + 1 ELSE @,
                  !.lapses = IF action = "know" THEN @ ELSE @ + 1,
                  !.lastReviewedAt = t,
                  !.nextReviewAt = t + IntervalPolicy(level)]
  IN [moved EXCEPT !.isMastered = isPhraseMastered(moved, cats)]

\* Mastery State Machine, evaluated at time t.
updatePhraseMastery(phrase, action, cats, t) ==
  LET streak == IF action = "know" THEN phrase.knowStreak + 1 ELSE 0
      level == IF action = "know"
               THEN IF streak % PROMOTION_THRESHOLD = 0
                    THEN Min(phrase.masteryLevel + 1, MAX_TIER)
                    ELSE phrase.masteryLevel
               ELSE phrase.masteryLevel \div 2
      moved == [phrase EXCEPT
                  !.masteryLevel = level,
                  !.knowStreak = streak,
                  !.knowCount = IF action = "know" THEN @ + 1 ELSE @,
                  !.lapses = IF action = "know" THEN @ ELSE @ + 1,
                  !.lastReviewedAt = t,
                  !.nextReviewAt = t + IntervalPolicy(level)]
  IN [moved EXCEPT !.isMastered = isPhraseMastered(moved, cats)]

\* RanksBefore whose first tie-break prefers the longer knowStreak.
RanksBefore_LongerStreak(a, b) ==
  \/ a.nextReviewAt < b.nextReviewAt
  \/ a.nextReviewAt = b.nextReviewAt /\ a.knowStreak > b.knowStreak
  \/ a.nextReviewAt = b.nextReviewAt /\ a.knowStreak = b.knowStreak /\ a.id < b.id

\* Candidate Selector: the rank of a due item is (nextReviewAt, knowStreak, id).
RanksBefore(a, b) ==
  \/ a.nextReviewAt < b.nextReviewAt
  \/ a.nextReviewAt = b.nextReviewAt /\ a.knowStreak < b.knowStreak
  \/ a.nextReviewAt = b.nextReviewAt /\ a.knowStreak = b.knowStreak /\ a.id < b.id

\* The positions of pool that hold a due item, and those that hold a new item.
DuePositions(pool, t) == {i \in DOMAIN pool : pool[i].nextReviewAt <= t}
NewPositions(pool) == {i \in DOMAIN pool : pool[i].lastReviewedAt = Null}

\* The top-ranked position of a non-empty set of due positions.
TopDue(pool, S) == CHOOSE i \in S : \A j \in S \ {i} : RanksBefore(pool[i], pool[j])

\* FirstOf that takes the last position.
FirstOf_Last(S) == CHOOSE i \in S : \A j \in S : i >= j

\* The first position (pool order) of a non-empty set of positions.
FirstOf(S) == CHOOSE i \in S : \A j \in S : i <= j

\* selectNextPhrase that also passes over the item its previous call returned.
selectNextPhrase_Remembering(pool, lastShownId, t) ==
  LET remembered == IF "pool" \in DOMAIN selectCalls.latest
                    THEN selectCalls.latest.result.id
                    ELSE 0
      due == {i \in DuePositions(pool, t) : pool[i].id # remembered}
      new == {i \in NewPositions(pool) : pool[i].id # remembered} \ due
  IN IF due # {}
     THEN LET top == TopDue(pool, due)
          IN IF pool[top].id # lastShownId THEN pool[top]
             ELSE IF Cardinality(due) > 1 THEN pool[TopDue(pool, due \ {top})]
             ELSE IF new # {} THEN pool[FirstOf(new)]
             ELSE pool[top]
     ELSE IF new # {}
     THEN LET first == FirstOf(new)
          IN IF pool[first].id = lastShownId /\ Cardinality(new) > 1
             THEN pool[FirstOf(new \ {first})]
             ELSE pool[first]
     ELSE NoPhrase

\* Candidate Selector. The candidates are the due items in rank order, followed by the
\* new items that are not due in pool order; the first candidate is returned, or the
\* second when the first is the item last shown and there is a second.
selectNextPhrase(pool, lastShownId, t) ==
  LET due == DuePositions(pool, t)
      new == NewPositions(pool) \ due
  IN IF due # {}
     THEN LET top == TopDue(pool, due)
          IN IF pool[top].id # lastShownId THEN pool[top]
             ELSE IF Cardinality(due) > 1 THEN pool[TopDue(pool, due \ {top})]
             ELSE IF new # {} THEN pool[FirstOf(new)]
             ELSE pool[top]
     ELSE IF new # {}
     THEN LET first == FirstOf(new)
          IN IF pool[first].id = lastShownId /\ Cardinality(new) > 1
             THEN pool[FirstOf(new \ {first})]
             ELSE pool[first]
     ELSE NoPhrase

\* ------------------------------------------------------- the coordinator
\* One clock step: the tier-0 interval, so that a reviewed item can fall due again.
Tick == IntervalPolicy(0)

\* StorePhrase with the optimistic update left out.
StorePhrase_Dropped(prev, phrase, updatedPhrase) == prev

\* prev.map((p) => (p.id === phrase.id ? updatedPhrase : p))
StorePhrase(prev, phrase, updatedPhrase) ==
  [i \in DOMAIN prev |-> IF prev[i].id = phrase.id THEN updatedPhrase ELSE prev[i]]

\* The item with the given id in a phrase list.
StoredIn(phrases, id) == phrases[CHOOSE i \in DOMAIN phrases : phrases[i].id = id]

\* The stored item with the given id (allPhrases.find).
Stored(id) == allPhrases[CHOOSE i \in DOMAIN allPhrases : allPhrases[i].id = id]

\* crossedIntoLeech without the test of the item before the review.
crossedIntoLeech_NoEdge(originalPhrase, srsUpdatedPhrase, action) ==
  /\ action \in FailureActions
  /\ isLeech(srsUpdatedPhrase)

\* crossedIntoLeech that tests the item before the review twice.
crossedIntoLeech_Before(originalPhrase, srsUpdatedPhrase, action) ==
  /\ action \in FailureActions
  /\ ~isLeech(originalPhrase)
  /\ isLeech(originalPhrase)

\* handlePracticeUpdateMastery: !wasLeech && isNowLeech, on a failure action only.
crossedIntoLeech(originalPhrase, srsUpdatedPhrase, action) ==
  /\ action \in FailureActions
  /\ ~isLeech(originalPhrase)
  /\ isLeech(srsUpdatedPhrase)

\* buildLogEntry that takes isLeechAfter from the item before the review.
buildLogEntry_LeechBefore(phrase, updatedPhrase, action, logTimestamp) ==
  [timestamp |-> logTimestamp,
   phraseId |-> phrase.id,
   categoryId |-> phrase.category,
   action |-> action,
   wasCorrect |-> (action = "know"),
   wasNew |-> (phrase.lastReviewedAt = Null),
   previousMasteryLevel |-> phrase.masteryLevel,
   newMasteryLevel |-> updatedPhrase.masteryLevel,
   previousKnowStreak |-> phrase.knowStreak,
   newKnowStreak |-> updatedPhrase.knowStreak,
   previousLapses |-> phrase.lapses,
   newLapses |-> updatedPhrase.lapses,
   previousNextReviewAt |-> phrase.nextReviewAt,
   nextReviewAt |-> updatedPhrase.nextReviewAt,
   previousIsMastered |-> phrase.isMastered,
   newIsMastered |-> updatedPhrase.isMastered,
   previousKnowCount |-> phrase.knowCount,
   newKnowCount |-> updatedPhrase.knowCount,
   intervalMs |-> Max(updatedPhrase.nextReviewAt - logTimestamp, 0),
   isLeechAfter |-> isLeech(phrase)]

\* buildLogEntry whose leech field records only the crossing of the threshold.
buildLogEntry_Crossed(phrase, updatedPhrase, action, logTimestamp) ==
  [timestamp |-> logTimestamp,
   phraseId |-> phrase.id,
   categoryId |-> phrase.category,
   action |-> action,
   wasCorrect |-> (action = "know"),
   wasNew |-> (phrase.lastReviewedAt = Null),
   previousMasteryLevel |-> phrase.masteryLevel,
   newMasteryLevel |-> updatedPhrase.masteryLevel,
   previousKnowStreak |-> phrase.knowStreak,
   newKnowStreak |-> updatedPhrase.knowStreak,
   previousLapses |-> phrase.lapses,
   newLapses |-> updatedPhrase.lapses,
   previousNextReviewAt |-> phrase.nextReviewAt,
   nextReviewAt |-> updatedPhrase.nextReviewAt,
   previousIsMastered |-> phrase.isMastered,
   newIsMastered |-> updatedPhrase.isMastered,
   previousKnowCount |-> phrase.knowCount,
   newKnowCount |-> updatedPhrase.knowCount,
   intervalMs |-> Max(updatedPhrase.nextReviewAt - logTimestamp, 0),
   isLeechAfter |-> (~isLeech(phrase) /\ isLeech(updatedPhrase))]

\* buildLogEntry that takes wasNew from the item after the review.
buildLogEntry_WasNewAfter(phrase, updatedPhrase, action, logTimestamp) ==
  [timestamp |-> logTimestamp,
   phraseId |-> phrase.id,
   categoryId |-> phrase.category,
   action |-> action,
   wasCorrect |-> (action = "know"),
   wasNew |-> (updatedPhrase.lastReviewedAt = Null),
   previousMasteryLevel |-> phrase.masteryLevel,
   newMasteryLevel |-> updatedPhrase.masteryLevel,
   previousKnowStreak |-> phrase.knowStreak,
   newKnowStreak |-> updatedPhrase.knowStreak,
   previousLapses |-> phrase.lapses,
   newLapses |-> updatedPhrase.lapses,
   previousNextReviewAt |-> phrase.nextReviewAt,
   nextReviewAt |-> updatedPhrase.nextReviewAt,
   previousIsMastered |-> phrase.isMastered,
   newIsMastered |-> updatedPhrase.isMastered,
   previousKnowCount |-> phrase.knowCount,
   newKnowCount |-> updatedPhrase.knowCount,
   intervalMs |-> Max(updatedPhrase.nextReviewAt - logTimestamp, 0),
   isLeechAfter |-> isLeech(updatedPhrase)]

\* The PracticeReviewLogEntry that updatePhraseMasteryAndCache builds after its await.
buildLogEntry(phrase, updatedPhrase, action, logTimestamp) ==
  [timestamp |-> logTimestamp,
   phraseId |-> phrase.id,
   categoryId |-> phrase.category,
   action |-> action,
   wasCorrect |-> (action = "know"),
   wasNew |-> (phrase.lastReviewedAt = Null),
   previousMasteryLevel |-> phrase.masteryLevel,
   newMasteryLevel |-> updatedPhrase.masteryLevel,
   previousKnowStreak |-> phrase.knowStreak,
   newKnowStreak |-> updatedPhrase.knowStreak,
   previousLapses |-> phrase.lapses,
   newLapses |-> updatedPhrase.lapses,
   previousNextReviewAt |-> phrase.nextReviewAt,
   nextReviewAt |-> updatedPhrase.nextReviewAt,
   previousIsMastered |-> phrase.isMastered,
   newIsMastered |-> updatedPhrase.isMastered,
   previousKnowCount |-> phrase.knowCount,
   newKnowCount |-> updatedPhrase.knowCount,
   intervalMs |-> Max(updatedPhrase.nextReviewAt - logTimestamp, 0),
   isLeechAfter |-> isLeech(updatedPhrase)]

\* appendPracticeReviewLog that trims a log past its limit to its oldest entries.
appendPracticeReviewLog_KeepsOldest(prev, entry) ==
  LET next == Append(prev, entry)
  IN IF Len(next) > PRACTICE_REVIEW_LOG_LIMIT
     THEN SubSeq(next, 1, PRACTICE_REVIEW_LOG_LIMIT)
     ELSE next

\* appendPracticeReviewLog, lines 641-655: [...prev, entry] cut to its last
\* PRACTICE_REVIEW_LOG_LIMIT entries.
appendPracticeReviewLog(prev, entry) ==
  LET next == Append(prev, entry)
  IN IF Len(next) > PRACTICE_REVIEW_LOG_LIMIT
     THEN SubSeq(next, Len(next) - PRACTICE_REVIEW_LOG_LIMIT + 1, Len(next))
     ELSE next

\* applyLeechAction whose reset leaves a knowStreak of 1.
applyLeechAction_StreakOne(phrase, action, t) ==
  CASE action = "continue" -> [phrase EXCEPT !.nextReviewAt = t + RETRY_SHORT_MINUTES]
    [] action = "reset" -> [phrase EXCEPT !.masteryLevel = 0,
                                          !.lastReviewedAt = Null,
                                          !.nextReviewAt = t,
                                          !.knowCount = 0,
                                          !.knowStreak = 1,
                                          !.lapses = 0,
                                          !.isMastered = FALSE]
    [] OTHER -> [phrase EXCEPT !.nextReviewAt = t + POSTPONE_MINUTES]

\* applyLeechAction whose reset leaves masteryLevel as it is.
applyLeechAction_KeepLevel(phrase, action, t) ==
  CASE action = "continue" -> [phrase EXCEPT !.nextReviewAt = t + RETRY_SHORT_MINUTES]
    [] action = "reset" -> [phrase EXCEPT !.lastReviewedAt = Null,
                                          !.nextReviewAt = t,
                                          !.knowCount = 0,
                                          !.knowStreak = 0,
                                          !.lapses = 0,
                                          !.isMastered = FALSE]
    [] OTHER -> [phrase EXCEPT !.nextReviewAt = t + POSTPONE_MINUTES]

\* applyLeechAction whose postpone clears the counters as reset does.
applyLeechAction_PostponeClears(phrase, action, t) ==
  CASE action = "continue" -> [phrase EXCEPT !.nextReviewAt = t + RETRY_SHORT_MINUTES]
    [] OTHER -> [phrase EXCEPT !.masteryLevel = 0,
                               !.lastReviewedAt = Null,
                               !.nextReviewAt = IF action = "reset" THEN t
                                                ELSE t + POSTPONE_MINUTES,
                               !.knowCount = 0,
                               !.knowStreak = 0,
                               !.lapses = 0,
                               !.isMastered = FALSE]

\* applyLeechAction whose reset leaves lastReviewedAt as it is.
applyLeechAction_KeepReviewed(phrase, action, t) ==
  CASE action = "continue" -> [phrase EXCEPT !.nextReviewAt = t + RETRY_SHORT_MINUTES]
    [] action = "reset" -> [phrase EXCEPT !.masteryLevel = 0,
                                          !.nextReviewAt = t,
                                          !.knowCount = 0,
                                          !.knowStreak = 0,
                                          !.lapses = 0,
                                          !.isMastered = FALSE]
    [] OTHER -> [phrase EXCEPT !.nextReviewAt = t + POSTPONE_MINUTES]

\* applyLeechAction whose reset leaves lapses as they are.
applyLeechAction_KeepLapses(phrase, action, t) ==
  CASE action = "continue" -> [phrase EXCEPT !.nextReviewAt = t + RETRY_SHORT_MINUTES]
    [] action = "reset" -> [phrase EXCEPT !.masteryLevel = 0,
                                          !.lastReviewedAt = Null,
                                          !.nextReviewAt = t,
                                          !.knowCount = 0,
                                          !.knowStreak = 0,
                                          !.isMastered = FALSE]
    [] OTHER -> [phrase EXCEPT !.nextReviewAt = t + POSTPONE_MINUTES]

\* applyLeechAction whose postpone schedules the item as retryShort does.
applyLeechAction_PostponeShort(phrase, action, t) ==
  CASE action = "reset" -> [phrase EXCEPT !.masteryLevel = 0,
                                          !.lastReviewedAt = Null,
                                          !.nextReviewAt = t,
                                          !.knowCount = 0,
                                          !.knowStreak = 0,
                                          !.lapses = 0,
                                          !.isMastered = FALSE]
    [] OTHER -> [phrase EXCEPT !.nextReviewAt = t + RETRY_SHORT_MINUTES]

\* handleLeechAction, lines 70-91: the updatedPhrase it computes.
applyLeechAction(phrase, action, t) ==
  CASE action = "continue" -> [phrase EXCEPT !.nextReviewAt = t + RETRY_SHORT_MINUTES]
    [] action = "reset" -> [phrase EXCEPT !.masteryLevel = 0,
                                          !.lastReviewedAt = Null,
                                          !.nextReviewAt = t,
                                          !.knowCount = 0,
                                          !.knowStreak = 0,
                                          !.lapses = 0,
                                          !.isMastered = FALSE]
    [] OTHER -> [phrase EXCEPT !.nextReviewAt = t + POSTPONE_MINUTES]

\* backendService.updatePhrase(userId, phrase) called with the argument list args:
\* its first statement reads phrase.id, which throws a TypeError when the second
\* argument is missing, so the promise is rejected before any request is made.
backendUpdatePhrase(args) ==
  IF Len(args) < 2 THEN "rejected" ELSE "resolved"

\* allPhrases.filter((p) => p && !p.isMastered && settings.enabledCategories[p.category])
unmasteredPhrases(phrases, enabled) ==
  SelectSeq(phrases, LAMBDA p : ~p.isMastered /\ enabled[p.category])

\* practicePool that leaves the category filter out.
practicePoolOf_Unfiltered(unmastered, filter) == unmastered

\* practicePool: unmasteredPhrases, narrowed to the category of the filter when the
\* filter is not 'all'.
practicePoolOf(unmastered, filter) ==
  IF filter = AllCategories THEN unmastered
  ELSE SelectSeq(unmastered, LAMBDA p : p.category = filter)

practicePool ==
  practicePoolOf(unmasteredPhrases(allPhrases, enabledCategories), practiceCategoryFilter)

RemoveAt(s, k) == [i \in 1..(Len(s) - 1) |-> IF i < k THEN s[i] ELSE s[i + 1]]

\* A phrase as createPhrase leaves it: all counters zero, due at once.
FreshPhrase(id, t) ==
  [id |-> id, category |-> 1, masteryLevel |-> 0, knowStreak |-> 0, knowCount |-> 0,
   lapses |-> 0, lastReviewedAt |-> Null, nextReviewAt |-> t, isMastered |-> FALSE]

\* What an earlier session stored for a phrase it reviewed with the actions of history
\* (at time 0), starting from the fresh phrase.
RECURSIVE Replay(_, _, _)
Replay(id, history, cats) ==
  IF history = <<>>
  THEN FreshPhrase(id, 0)
  ELSE updatePhraseMastery(Replay(id, SubSeq(history, 1, Len(history) - 1), cats),
                           history[Len(history)], cats, 0)

Repeat(action, n) == [i \in 1..n |-> action]

\* The histories of the first phrase a session may start from.
StoredHistories ==
  {<<>>, Repeat("forgot", 3), Repeat("forgot", 3) \o Repeat("know", 4),
   Repeat("know", 6), Repeat("know", 15)}

NoCall == [action |-> "none"]
NoSelection == [result |-> "none yet"]
NoSelections == [previous |-> NoSelection, latest |-> NoSelection]
NoRejection == [error |-> "none"]
NoSync == [pending |-> FALSE]
NoTransition == [pending |-> FALSE]
NoHandlerCall == [handler |-> "none"]
NoApiCall == [phase |-> "idle"]

\* ---------------------------------------------------------------- actions
\* updatePhraseMasteryAndCache(phrase, action), up to its await: the engine call,
\* the optimistic store, and the call suspended on backendService.updatePhrase.
\* openLeech and surface are the locals of the calling handler.
BeginUpdate(phrase, action, openLeech, surface) ==
  LET updatedPhrase == updatePhraseMastery(phrase, action, categories, now)
  IN /\ allPhrases' = StorePhrase(allPhrases, phrase, updatedPhrase)
     /\ inflight' = Append(inflight,
                       [phrase |-> phrase, updatedPhrase |-> updatedPhrase,
                        action |-> action, at |-> now,
                        currentId |-> currentPracticePhrase.id,
                        openLeech |-> openLeech, surface |-> surface])

\* handlePracticeUpdateMastery(action), up to the await of updatePhraseMasteryAndCache.
\* The open leech modal is a full-screen overlay (LeechModal.tsx, line 131): the card
\* below it takes no input.
HandlePracticeUpdateMastery(action) ==
  /\ ~isLeechModalOpen
  /\ currentPracticePhrase # NoPhrase
  /\ ~practiceIsExitingRef
  /\ Len(practiceReviewLog) + Len(inflight) < MaxLog
  /\ LET originalPhrase == currentPracticePhrase
         srsUpdatedPhrase == updatePhraseMastery(originalPhrase, action, categories, now)
     IN BeginUpdate(originalPhrase, action,
                    crossedIntoLeech(originalPhrase, srsUpdatedPhrase, action), "practice")
  /\ UNCHANGED <<categories, enabledCategories, currentPracticePhrase, practiceReviewLog,
                 isLeechModalOpen, leechPhrase, leechCall, practiceIsExitingRef,
                 pendingTransition, now>>
  /\ UNCHANGED <<selectCalls, rejectedCall, backgroundSync, surfaceVars, toast>>

\* What backendService.updatePhrase(userId, updatedPhrase) can come to.
BackendOutcomes == {"resolved", "rejected"}

\* SettleUpdate whose catch block puts the item back as it was before the review.
SettleUpdate_Reverts(k, outcome) ==
  LET call == inflight[k]
      afterCache == IF call.currentId = call.phrase.id
                    THEN call.updatedPhrase
                    ELSE currentPracticePhrase
  IN /\ practiceReviewLog' = appendPracticeReviewLog(practiceReviewLog,
            buildLogEntry(call.phrase, call.updatedPhrase, call.action, now))
     /\ inflight' = RemoveAt(inflight, k)
     /\ IF call.surface = "practice" /\ call.openLeech
        THEN /\ currentPracticePhrase' = afterCache
             /\ leechPhrase' = call.updatedPhrase
             /\ isLeechModalOpen' = TRUE
        ELSE /\ currentPracticePhrase' = IF call.surface = "practice"
                                         THEN call.updatedPhrase
                                         ELSE afterCache
             /\ UNCHANGED <<leechPhrase, isLeechModalOpen>>
     /\ toast' = IF outcome = "resolved" THEN toast ELSE "notifications.sync.error"
     /\ allPhrases' = IF outcome = "resolved" THEN allPhrases
                      ELSE StorePhrase(allPhrases, call.phrase, call.phrase)
     /\ UNCHANGED <<categories, enabledCategories, leechCall,
                    practiceIsExitingRef, pendingTransition, selectCalls,
                    rejectedCall, backgroundSync, surfaceVars, now>>

\* The backend call of the k-th suspended updatePhraseMasteryAndCache settles with the
\* given outcome: the catch block when it was rejected, the rest of
\* updatePhraseMasteryAndCache, then the rest of handlePracticeUpdateMastery.
SettleUpdate(k, outcome) ==
  LET call == inflight[k]
      afterCache == IF call.currentId = call.phrase.id
                    THEN call.updatedPhrase
                    ELSE currentPracticePhrase
  IN /\ practiceReviewLog' = appendPracticeReviewLog(practiceReviewLog,
            buildLogEntry(call.phrase, call.updatedPhrase, call.action, now))
     /\ inflight' = RemoveAt(inflight, k)
     /\ IF call.surface = "practice" /\ call.openLeech
        THEN /\ currentPracticePhrase' = afterCache
             /\ leechPhrase' = call.updatedPhrase
             /\ isLeechModalOpen' = TRUE
        ELSE /\ currentPracticePhrase' = IF call.surface = "practice"
                                         THEN call.updatedPhrase
                                         ELSE afterCache
             /\ UNCHANGED <<leechPhrase, isLeechModalOpen>>
     /\ toast' = IF outcome = "resolved" THEN toast ELSE "notifications.sync.error"
     /\ UNCHANGED <<allPhrases, categories, enabledCategories, leechCall,
                    practiceIsExitingRef, pendingTransition, selectCalls,
                    rejectedCall, backgroundSync, surfaceVars, now>>

\* The same, for a backend call that is resolved.
FinishUpdate(k) == SettleUpdate(k, "resolved")

\* transitionToNext('right'), as called from a handler of the current render.
StartTransition ==
  IF practiceIsExitingRef
  THEN UNCHANGED <<practiceIsExitingRef, pendingTransition>>
  ELSE /\ practiceIsExitingRef' = TRUE
       /\ pendingTransition' = [pending |-> TRUE, pool |-> practicePool,
                                lastShownId |-> currentPracticePhrase.id]

\* handleLeechAction that stores the item before the backend update settles.
HandleLeechAction_StoresFirst(action) ==
  /\ isLeechModalOpen
  /\ leechPhrase # NoPhrase
  /\ LET updatedPhrase == applyLeechAction(leechPhrase, action, now)
         outcome == backendUpdatePhrase(<<updatedPhrase>>)
     IN /\ allPhrases' = StorePhrase(allPhrases, updatedPhrase, updatedPhrase)
        /\ leechCall' = [action |-> action, phrase |-> leechPhrase,
                         updatedPhrase |-> updatedPhrase, at |-> now,
                         outcome |-> outcome]
        /\ toast' = IF outcome = "resolved" THEN toast
                                            ELSE "notifications.genericError"
  /\ isLeechModalOpen' = FALSE
  /\ leechPhrase' = NoPhrase
  /\ StartTransition
  /\ UNCHANGED <<categories, enabledCategories, currentPracticePhrase, practiceReviewLog,
                 inflight, now>>
  /\ UNCHANGED <<selectCalls, rejectedCall, backgroundSync, surfaceVars>>

\* handleLeechAction(leechPhrase, action) of the open leech modal.
HandleLeechAction(action) ==
  /\ isLeechModalOpen
  /\ leechPhrase # NoPhrase
  /\ LET updatedPhrase == applyLeechAction(leechPhrase, action, now)
         outcome == backendUpdatePhrase(<<updatedPhrase>>)
     IN /\ allPhrases' = IF outcome = "resolved"
                         THEN StorePhrase(allPhrases, updatedPhrase, updatedPhrase)
                         ELSE allPhrases
        /\ leechCall' = [action |-> action, phrase |-> leechPhrase,
                         updatedPhrase |-> updatedPhrase, at |-> now,
                         outcome |-> outcome]
        /\ toast' = IF outcome = "resolved" THEN toast
                                            ELSE "notifications.genericError"
  /\ isLeechModalOpen' = FALSE
  /\ leechPhrase' = NoPhrase
  /\ StartTransition
  /\ UNCHANGED <<categories, enabledCategories, currentPracticePhrase, practiceReviewLog,
                 inflight, now>>
  /\ UNCHANGED <<selectCalls, rejectedCall, backgroundSync, surfaceVars>>

\* onContinue / ArrowRight: transitionToNext('right').
TransitionToNext ==
  /\ ~isLeechModalOpen
  /\ ~practiceIsExitingRef
  /\ StartTransition
  /\ UNCHANGED <<allPhrases, categories, enabledCategories, currentPracticePhrase,
                 practiceReviewLog, inflight, isLeechModalOpen, leechPhrase, leechCall, now>>
  /\ UNCHANGED <<selectCalls, rejectedCall, backgroundSync, surfaceVars, toast>>

\* The 250 ms timer of transitionToNext fires: selectNextPracticePhrase of the render
\* that started the transition, then practiceIsExitingRef.current = false.
TransitionTimer ==
  /\ pendingTransition.pending
  /\ currentPracticePhrase' =
       selectNextPhrase(pendingTransition.pool, pendingTransition.lastShownId, now)
  /\ practiceIsExitingRef' = FALSE
  /\ pendingTransition' = NoTransition
  /\ UNCHANGED <<allPhrases, categories, enabledCategories, practiceReviewLog, inflight,
                 isLeechModalOpen, leechPhrase, leechCall, now>>
  /\ UNCHANGED <<selectCalls, rejectedCall, backgroundSync, surfaceVars, toast>>

\* The effect that shows a first card when none is shown.
AutoSelect ==
  /\ currentPracticePhrase = NoPhrase
  /\ Len(allPhrases) > 0
  /\ currentPracticePhrase' = selectNextPhrase(practicePool, 0, now)
  /\ UNCHANGED <<allPhrases, categories, enabledCategories, practiceReviewLog, inflight,
                 isLeechModalOpen, leechPhrase, leechCall, practiceIsExitingRef,
                 pendingTransition, now>>
  /\ UNCHANGED <<selectCalls, rejectedCall, backgroundSync, surfaceVars, toast>>

\* Time passes.
TimePasses ==
  /\ now < SessionStart + MaxTicks * Tick
  /\ now' = now + Tick
  /\ UNCHANGED <<allPhrases, categories, enabledCategories, currentPracticePhrase,
                 practiceReviewLog, inflight, isLeechModalOpen, leechPhrase, leechCall,
                 practiceIsExitingRef, pendingTransition>>
  /\ UNCHANGED <<selectCalls, rejectedCall, backgroundSync, surfaceVars, toast>>

\* -------------------------------------------------------- specifications
InitCoordinator ==
  /\ categories \in [CategoryIds -> BOOLEAN]
  /\ enabledCategories = [c \in CategoryIds |-> TRUE]
  /\ currentPracticePhrase = NoPhrase
  /\ practiceReviewLog = <<>>
  /\ inflight = <<>>
  /\ isLeechModalOpen = FALSE
  /\ leechPhrase = NoPhrase
  /\ leechCall = NoCall
  /\ practiceIsExitingRef = FALSE
  /\ pendingTransition = NoTransition
  /\ selectCalls = NoSelections
  /\ rejectedCall = NoRejection
  /\ backgroundSync = NoSync
  /\ cardHistory = <<>>
  /\ transitionTimers = <<>>
  /\ lastCall = NoHandlerCall
  /\ toast = "none"
  /\ practiceCategoryFilter = AllCategories
  /\ apiProviderType = "gemini"
  /\ apiCall = NoApiCall
  /\ now = SessionStart

\* loadUserData, lines 336-346: the phrases of localStorage with isMastered recomputed.
\* The first phrase was left by an earlier session with one of StoredHistories, the
\* others are freshly created.
Init ==
  /\ InitCoordinator
  /\ \E h \in StoredHistories :
       allPhrases = [i \in 1..Cardinality(PhraseIds) |->
                       LET p == IF i = 1 THEN Replay(i, h, categories)
                                         ELSE FreshPhrase(i, 0)
                       IN [p EXCEPT !.isMastered = isPhraseMastered(p, categories)]]

Next ==
  \/ \E action \in ReviewActions : HandlePracticeUpdateMastery(action)
  \/ \E k \in DOMAIN inflight : FinishUpdate(k)
  \/ \E action \in LeechActions : HandleLeechAction(action)
  \/ TransitionToNext
  \/ TransitionTimer
  \/ AutoSelect
  \/ TimePasses

Spec == Init /\ [][Next]_vars

\* ----------------------------------------------------- the engine on its own
\* Every sequence of at most MaxHistory review actions.
RECURSIVE Histories(_)
Histories(n) ==
  IF n = 0 THEN {<<>>}
  ELSE LET shorter == Histories(n - 1)
       IN shorter \cup {Append(h, a) : h \in shorter, a \in ReviewActions}

\* The histories of the first phrase: every short one, those of StoredHistories, and one
\* that ends a single know short of MASTERY_TIER.
EngineHistories == Histories(MaxHistory) \cup StoredHistories \cup {Repeat("know", 9)}

\* loadUserData: the first phrase was left by an earlier session with one of
\* EngineHistories, the others are freshly created.
InitEngine ==
  /\ InitCoordinator
  /\ \E h \in EngineHistories :
       allPhrases = [i \in 1..Cardinality(PhraseIds) |->
                       LET p == IF i = 1 THEN Replay(i, h, categories)
                                         ELSE FreshPhrase(i, 0)
                       IN [p EXCEPT !.isMastered = isPhraseMastered(p, categories)]]

\* updatePhraseMasteryAndCache(phrase, action) on a stored phrase, run to its end with
\* nothing in between: the engine call, the store and the log entry.
ReviewApplied(i, action) ==
  LET phrase == allPhrases[i]
      updatedPhrase == updatePhraseMastery(phrase, action, categories, now)
  IN /\ allPhrases' = StorePhrase(allPhrases, phrase, updatedPhrase)
     /\ practiceReviewLog' = appendPracticeReviewLog(practiceReviewLog,
            buildLogEntry(phrase, updatedPhrase, action, now))
     /\ UNCHANGED <<categories, enabledCategories, currentPracticePhrase, inflight,
                    isLeechModalOpen, leechPhrase, leechCall, practiceIsExitingRef,
                    pendingTransition, now>>
     /\ UNCHANGED <<selectCalls, rejectedCall, backgroundSync, surfaceVars, toast>>

\* The same, for the first MaxLog reviews of a session that started with an empty log.
ApplyReview(i, action) == Len(practiceReviewLog) < MaxLog /\ ReviewApplied(i, action)

\* updateSettings({ enabledCategories }) with one category toggled (SettingsModal's
\* onSettingsChange): the settings change and nothing else does.
UpdateSettings(c) ==
  /\ enabledCategories' = [enabledCategories EXCEPT ![c] = ~@]
  /\ UNCHANGED <<allPhrases, categories, currentPracticePhrase, practiceReviewLog,
                 inflight, isLeechModalOpen, leechPhrase, leechCall,
                 practiceIsExitingRef, pendingTransition, selectCalls,
                 rejectedCall, backgroundSync, surfaceVars, toast, now>>

NextEngine ==
  \/ \E i \in DOMAIN allPhrases, action \in ReviewActions : ApplyReview(i, action)
  \/ \E c \in CategoryIds : UpdateSettings(c)
  \/ TimePasses

EngineSpec == InitEngine /\ [][NextEngine]_vars

\* The same, for a session whose categories argument of the engine agrees with the
\* enabled state of every category when it starts.
InitSettings == InitEngine /\ categories = enabledCategories
SettingsSpec == InitSettings /\ [][NextEngine]_vars

\* ------------------------------------------------------------ the full log
\* What an earlier session stored for a phrase after n reviews, all of them forgot.
WornPhrase(id, n, cats) ==
  IF n = 0 THEN FreshPhrase(id, 0)
  ELSE [Replay(id, <<"forgot">>, cats) EXCEPT !.lapses = n]

\* The log those n reviews left: the j-th entry is the one built for the j-th forgot.
LoggedReviews(id, n, cats) ==
  [j \in 1..n |-> buildLogEntry(WornPhrase(id, j - 1, cats), WornPhrase(id, j, cats),
                                "forgot", 0)]

\* The lengths of the stored log a session may start from: full, or one entry short.
StoredLogLengths == {PRACTICE_REVIEW_LOG_LIMIT - 1, PRACTICE_REVIEW_LOG_LIMIT}

\* loadUserData, lines 336-346 and 440-441: the phrases and the review log of
\* localStorage, left by earlier sessions that reviewed the first phrase.
InitLog ==
  /\ categories \in [CategoryIds -> BOOLEAN]
  /\ enabledCategories = [c \in CategoryIds |-> TRUE]
  /\ currentPracticePhrase = NoPhrase
  /\ inflight = <<>>
  /\ isLeechModalOpen = FALSE
  /\ leechPhrase = NoPhrase
  /\ leechCall = NoCall
  /\ practiceIsExitingRef = FALSE
  /\ pendingTransition = NoTransition
  /\ selectCalls = NoSelections
  /\ rejectedCall = NoRejection
  /\ backgroundSync = NoSync
  /\ cardHistory = <<>>
  /\ transitionTimers = <<>>
  /\ lastCall = NoHandlerCall
  /\ toast = "none"
  /\ practiceCategoryFilter = AllCategories
  /\ apiProviderType = "gemini"
  /\ apiCall = NoApiCall
  /\ now = SessionStart
  /\ \E n \in StoredLogLengths :
       /\ practiceReviewLog = LoggedReviews(1, n, categories)
       /\ allPhrases = [i \in 1..Cardinality(PhraseIds) |->
                          IF i = 1 THEN WornPhrase(i, n, categories)
                                   ELSE FreshPhrase(i, 0)]

\* The reviews the stored phrases have had, by their counters.
ReviewsCounted ==
  LET RECURSIVE Counted(_)
      Counted(n) == IF n = 0 THEN 0
                    ELSE allPhrases[n].knowCount + allPhrases[n].lapses + Counted(n - 1)
  IN Counted(Len(allPhrases))

\* updatePhraseMasteryAndCache(phrase, action) of a session that started with a long
\* log, for up to MaxLog reviews past the log's limit.
ApplyReviewPastLimit(i, action) ==
  /\ ReviewsCounted < PRACTICE_REVIEW_LOG_LIMIT + MaxLog
  /\ ReviewApplied(i, action)

NextLog ==
  \E i \in DOMAIN allPhrases, action \in ReviewActions : ApplyReviewPastLimit(i, action)

LogSpec == InitLog /\ [][NextLog]_vars

\* ------------------------------------------------------------ a change of user
\* The user-change effect of useDataOperations, lines 488-512, up to its call of
\* loadUserData: the phrases, the categories, the card and the review log are cleared
\* (and their localStorage keys removed).
UserChanged ==
  /\ categories # <<>>
  /\ allPhrases' = <<>>
  /\ categories' = <<>>
  /\ currentPracticePhrase' = NoPhrase
  /\ practiceReviewLog' = <<>>
  /\ UNCHANGED <<enabledCategories, inflight, isLeechModalOpen, leechPhrase, leechCall,
                 practiceIsExitingRef, pendingTransition, selectCalls,
                 rejectedCall, backgroundSync, surfaceVars, toast, now>>

\* loadUserData called by that effect, lines 363-394 and 424-441: nothing is in
\* localStorage, so the phrases and categories come from fetchInitialData
\* (processInitialServerData recomputes isMastered), or are the defaults when the fetch
\* fails; no stored review log is found, so the log stays as it is.  The cleared
\* categories mark the load as pending.
LoadUserData ==
  /\ categories = <<>>
  /\ \/ \E cats \in [CategoryIds -> BOOLEAN], h \in StoredHistories :
          /\ categories' = cats
          /\ allPhrases' = [i \in 1..Cardinality(PhraseIds) |->
                              LET p == IF i = 1 THEN Replay(i, h, cats)
                                                ELSE FreshPhrase(i, 0)
                              IN [p EXCEPT !.isMastered = isPhraseMastered(p, cats)]]
     \/ /\ categories' = [c \in CategoryIds |-> TRUE]
        /\ allPhrases' = <<>>
  /\ UNCHANGED <<enabledCategories, currentPracticePhrase, practiceReviewLog, inflight,
                 isLeechModalOpen, leechPhrase, leechCall, practiceIsExitingRef,
                 pendingTransition, selectCalls, rejectedCall, backgroundSync, surfaceVars, toast, now>>

NextUser ==
  \/ \E i \in DOMAIN allPhrases, action \in ReviewActions : ApplyReview(i, action)
  \/ UserChanged
  \/ LoadUserData

UserSpec == Init /\ [][NextUser]_vars

\* ------------------------------------------------------------ invalid items
\* The invariants of the data model that an item record has to satisfy.
ValidItem(p) ==
  /\ p.masteryLevel >= 0
  /\ p.knowStreak >= 0
  /\ p.knowCount >= 0
  /\ p.lapses >= 0
  /\ p.knowStreak <= p.knowCount
  /\ (p.lastReviewedAt = Null) <=> (p.knowCount = 0 /\ p.lapses = 0)

\* applyReview that reviews whatever record it is given.
applyReview_Lenient(phrase, action, cats, t) ==
  [error |-> "none", updatedPhrase |-> updatePhraseMastery(phrase, action, cats, t)]

\* applyReview: the Mastery State Machine behind its check of the item record.
applyReview(phrase, action, cats, t) ==
  IF ValidItem(phrase)
  THEN [error |-> "none", updatedPhrase |-> updatePhraseMastery(phrase, action, cats, t)]
  ELSE [error |-> "InvalidItemState"]

\* Item records the engine did not produce: a valid record with its streak above its
\* count, with its lastReviewedAt removed, or with a negative number of lapses.
Corruptions(p) ==
  {[p EXCEPT !.knowStreak = p.knowCount + 1],
   [p EXCEPT !.lastReviewedAt = IF @ = Null THEN 0 ELSE Null],
   [p EXCEPT !.lapses = -1]}

\* loadUserData, lines 336-346: the first phrase of localStorage is one an earlier
\* session stored, or a record that breaks the data model; the others are fresh.
InitValidation ==
  /\ InitCoordinator
  /\ \E h \in Histories(MaxHistory) :
       \E p \in {Replay(1, h, categories)} \cup Corruptions(Replay(1, h, categories)) :
         allPhrases = [i \in 1..Cardinality(PhraseIds) |->
                         IF i = 1 THEN p ELSE FreshPhrase(i, 0)]

\* updatePhraseMasteryAndCache(phrase, action) on a stored phrase: the engine call of
\* line 717 is outside the try block, so an error it throws ends the call before the
\* store and the log entry and reaches the caller as it was thrown.
ApplyCheckedReview(i, action) ==
  LET phrase == allPhrases[i]
      result == applyReview(phrase, action, categories, now)
  IN IF result.error = "none"
     THEN ApplyReview(i, action)
     ELSE /\ rejectedCall' = [error |-> result.error, phrase |-> phrase, action |-> action]
          /\ rejectedCall' # rejectedCall
          /\ UNCHANGED <<allPhrases, categories, enabledCategories, currentPracticePhrase,
                         practiceReviewLog, inflight, isLeechModalOpen, leechPhrase,
                         leechCall, practiceIsExitingRef, pendingTransition, selectCalls,
                         backgroundSync, surfaceVars, toast, now>>

NextValidation ==
  \E i \in DOMAIN allPhrases, action \in ReviewActions : ApplyCheckedReview(i, action)

ValidationSpec == InitValidation /\ [][NextValidation]_vars

\* ------------------------------------------------------------ the engine's clock
\* The smallest advance of the clock between two reads that the model can tell.
ClockStep == 1

\* What Date.now() may return to a read that follows a read of now in the same handler.
LaterClockReads == {now, now + ClockStep}

\* handlePracticeUpdateMastery(action), up to the await of updatePhraseMasteryAndCache,
\* with the clock as the code has it: srsService.updatePhraseMastery is called with
\* (phrase, action, categories) and no time at App.tsx 1620 and again at part_000 717,
\* so each of the two evaluations takes the time from the clock when it runs.
HandlePracticeUpdateMasteryByClock(action) ==
  /\ ~isLeechModalOpen
  /\ currentPracticePhrase # NoPhrase
  /\ ~practiceIsExitingRef
  /\ Len(practiceReviewLog) + Len(inflight) < MaxLog
  /\ \E t \in LaterClockReads :
       LET originalPhrase == currentPracticePhrase
           srsUpdatedPhrase == updatePhraseMastery(originalPhrase, action, categories, now)
           updatedPhrase == updatePhraseMastery(originalPhrase, action, categories, t)
       IN /\ allPhrases' = StorePhrase(allPhrases, originalPhrase, updatedPhrase)
          /\ inflight' = Append(inflight,
                 [phrase |-> originalPhrase, updatedPhrase |-> updatedPhrase,
                  action |-> action, at |-> t,
                  currentId |-> currentPracticePhrase.id,
                  openLeech |-> crossedIntoLeech(originalPhrase, srsUpdatedPhrase, action),
                  surface |-> "practice",
                  srsUpdatedPhrase |-> srsUpdatedPhrase])
          /\ now' = t
  /\ UNCHANGED <<categories, enabledCategories, currentPracticePhrase, practiceReviewLog,
                 isLeechModalOpen, leechPhrase, leechCall, practiceIsExitingRef,
                 pendingTransition, selectCalls, rejectedCall, backgroundSync, surfaceVars, toast>>

NextClock ==
  \/ AutoSelect
  \/ \E action \in ReviewActions : HandlePracticeUpdateMasteryByClock(action)
  \/ \E k \in DOMAIN inflight : FinishUpdate(k)

ClockSpec == Init /\ [][NextClock]_vars

\* ------------------------------------------------------------ the background sync
\* supabaseService.updatePhrase, lines 169-183: the row of the phrase is updated with
\* native_text, learning_text, category_id, transcription and context; the counters and
\* the review times of the row are not among the columns written.
supabaseUpdatePhrase(rows, dbPhrase) ==
  [i \in DOMAIN rows |-> IF rows[i].id = dbPhrase.id
                         THEN [rows[i] EXCEPT !.category = dbPhrase.category]
                         ELSE rows[i]]

\* processInitialServerData: the phrases of the server with isMastered recomputed.
processInitialServerData(rows, cats) ==
  [i \in DOMAIN rows |-> [rows[i] EXCEPT !.isMastered = isPhraseMastered(rows[i], cats)]]

\* loadUserData, lines 336-362: the phrases and categories of localStorage are shown at
\* once and fetchInitialData is started in the background; the server holds the rows
\* of the same phrases, here with the very counters localStorage has.
InitSync ==
  /\ categories \in [CategoryIds -> BOOLEAN]
  /\ enabledCategories = [c \in CategoryIds |-> TRUE]
  /\ currentPracticePhrase = NoPhrase
  /\ practiceReviewLog = <<>>
  /\ inflight = <<>>
  /\ isLeechModalOpen = FALSE
  /\ leechPhrase = NoPhrase
  /\ leechCall = NoCall
  /\ practiceIsExitingRef = FALSE
  /\ pendingTransition = NoTransition
  /\ selectCalls = NoSelections
  /\ rejectedCall = NoRejection
  /\ now = SessionStart
  /\ \E h \in StoredHistories :
       allPhrases = [i \in 1..Cardinality(PhraseIds) |->
                       LET p == IF i = 1 THEN Replay(i, h, categories)
                                         ELSE FreshPhrase(i, 0)
                       IN [p EXCEPT !.isMastered = isPhraseMastered(p, categories)]]
  /\ backgroundSync = [pending |-> TRUE, phrases |-> allPhrases,
                       categories |-> categories]
  /\ cardHistory = <<>>
  /\ transitionTimers = <<>>
  /\ lastCall = NoHandlerCall
  /\ toast = "none"
  /\ practiceCategoryFilter = AllCategories
  /\ apiProviderType = "gemini"
  /\ apiCall = NoApiCall

\* updatePhraseMasteryAndCache(phrase, action) on a stored phrase while the background
\* fetch is pending, run to its end: the engine call, the store, the backend update of
\* the phrase's row and the log entry.
ApplyReviewDuringSync(i, action) ==
  LET phrase == allPhrases[i]
      updatedPhrase == updatePhraseMastery(phrase, action, categories, now)
  IN /\ backgroundSync.pending
     /\ Len(practiceReviewLog) < MaxLog
     /\ allPhrases' = StorePhrase(allPhrases, phrase, updatedPhrase)
     /\ backgroundSync' = [backgroundSync EXCEPT
                             !.phrases = supabaseUpdatePhrase(@, updatedPhrase)]
     /\ practiceReviewLog' = appendPracticeReviewLog(practiceReviewLog,
            buildLogEntry(phrase, updatedPhrase, action, now))
     /\ UNCHANGED <<categories, enabledCategories, currentPracticePhrase, inflight,
                    isLeechModalOpen, leechPhrase, leechCall, practiceIsExitingRef,
                    pendingTransition, selectCalls, rejectedCall, surfaceVars, toast, now>>

\* The then-callback of the background fetch, lines 351-358: the phrases and the
\* categories of the server replace those of the session.
SyncCompletes ==
  /\ backgroundSync.pending
  /\ allPhrases' = processInitialServerData(backgroundSync.phrases,
                                            backgroundSync.categories)
  /\ categories' = backgroundSync.categories
  /\ backgroundSync' = [backgroundSync EXCEPT !.pending = FALSE]
  /\ UNCHANGED <<enabledCategories, currentPracticePhrase, practiceReviewLog, inflight,
                 isLeechModalOpen, leechPhrase, leechCall, practiceIsExitingRef,
                 pendingTransition, selectCalls, rejectedCall, surfaceVars, toast, now>>

NextSync ==
  \/ \E i \in DOMAIN allPhrases, action \in ReviewActions : ApplyReviewDuringSync(i, action)
  \/ SyncCompletes
  \/ TimePasses

SyncSpec == InitSync /\ [][NextSync]_vars

\* --------------------------------------------------- the selector on its own
\* A stored phrase with the given id: never reviewed, or reviewed once (know leaves a
\* streak of 1, forgot a streak of 0), and due at time t.
PoolItem(id, shape, t) ==
  IF shape = "new"
  THEN FreshPhrase(id, t)
  ELSE updatePhraseMastery(FreshPhrase(id, 0), shape, [c \in CategoryIds |-> TRUE],
                           t - IntervalPolicy(0))

PoolShapes ==
  {<<"new", SessionStart>>, <<"new", SessionStart + Tick>>, <<"know", SessionStart>>,
   <<"forgot", SessionStart>>, <<"know", SessionStart + Tick>>}

\* The ids of n stored phrases, ascending or descending in pool order.
PoolOrders(n) == {[i \in 1..n |-> i], [i \in 1..n |-> n + 1 - i]}

\* The phrase lists a session may load: at most MaxPool phrases, their ids ascending or
\* descending, each due when the session starts or one clock step later.
StoredPools ==
  UNION {{[i \in 1..n |-> PoolItem(ids[i], shapes[i][1], shapes[i][2])] :
            ids \in PoolOrders(n), shapes \in [1..n -> PoolShapes]} :
         n \in 0..MaxPool}


InitSelector ==
  /\ allPhrases \in StoredPools
  /\ categories = [c \in CategoryIds |-> TRUE]
  /\ enabledCategories = [c \in CategoryIds |-> TRUE]
  /\ currentPracticePhrase = NoPhrase
  /\ practiceReviewLog = <<>>
  /\ inflight = <<>>
  /\ isLeechModalOpen = FALSE
  /\ leechPhrase = NoPhrase
  /\ leechCall = NoCall
  /\ practiceIsExitingRef = FALSE
  /\ pendingTransition = NoTransition
  /\ selectCalls = NoSelections
  /\ rejectedCall = NoRejection
  /\ backgroundSync = NoSync
  /\ cardHistory = <<>>
  /\ transitionTimers = <<>>
  /\ lastCall = NoHandlerCall
  /\ toast = "none"
  /\ practiceCategoryFilter = AllCategories
  /\ apiProviderType = "gemini"
  /\ apiCall = NoApiCall
  /\ now = SessionStart

\* selectNextPracticePhrase that hands null to selectNextPhrase as the last shown id.
SelectNextPracticePhrase_NoLast ==
  LET nextPhrase == selectNextPhrase(practicePool, 0, now)
  IN /\ selectCalls' = [previous |-> selectCalls.latest,
                         latest |-> [pool |-> practicePool,
                                     lastShownId |-> currentPracticePhrase.id,
                                     at |-> now, result |-> nextPhrase]]
     /\ currentPracticePhrase' = nextPhrase
     /\ UNCHANGED <<allPhrases, categories, enabledCategories, practiceReviewLog,
                    inflight, isLeechModalOpen, leechPhrase, leechCall,
                    practiceIsExitingRef, pendingTransition, rejectedCall, backgroundSync, surfaceVars, toast, now>>

\* selectNextPracticePhrase that leaves the card as it is when nothing is selected.
SelectNextPracticePhrase_KeepsCard ==
  LET nextPhrase == selectNextPhrase(practicePool, currentPracticePhrase.id, now)
  IN /\ selectCalls' = [previous |-> selectCalls.latest,
                         latest |-> [pool |-> practicePool,
                                     lastShownId |-> currentPracticePhrase.id,
                                     at |-> now, result |-> nextPhrase]]
     /\ currentPracticePhrase' = IF nextPhrase = NoPhrase THEN currentPracticePhrase
                                                          ELSE nextPhrase
     /\ UNCHANGED <<allPhrases, categories, enabledCategories, practiceReviewLog,
                    inflight, isLeechModalOpen, leechPhrase, leechCall,
                    practiceIsExitingRef, pendingTransition, rejectedCall, backgroundSync, surfaceVars, toast, now>>

\* selectNextPracticePhrase: selectNextPhrase(practicePool, currentPracticePhrase?.id ??
\* null), then changePracticePhrase(nextPhrase) or changePracticePhrase(null).
SelectNextPracticePhrase ==
  LET nextPhrase == selectNextPhrase(practicePool, currentPracticePhrase.id, now)
  IN /\ selectCalls' = [previous |-> selectCalls.latest,
                         latest |-> [pool |-> practicePool,
                                     lastShownId |-> currentPracticePhrase.id,
                                     at |-> now, result |-> nextPhrase]]
     /\ currentPracticePhrase' = nextPhrase
     /\ UNCHANGED <<allPhrases, categories, enabledCategories, practiceReviewLog,
                    inflight, isLeechModalOpen, leechPhrase, leechCall,
                    practiceIsExitingRef, pendingTransition, rejectedCall, backgroundSync, surfaceVars, toast, now>>

\* handleStartPracticeWithPhrase(phraseToPractice).
HandleStartPracticeWithPhrase(i) ==
  /\ currentPracticePhrase # allPhrases[i]
  /\ currentPracticePhrase' = allPhrases[i]
  /\ UNCHANGED <<allPhrases, categories, enabledCategories, practiceReviewLog,
                 inflight, isLeechModalOpen, leechPhrase, leechCall,
                 practiceIsExitingRef, pendingTransition, selectCalls,
                 rejectedCall, backgroundSync, surfaceVars, toast, now>>

NextSelector ==
  \/ SelectNextPracticePhrase
  \/ \E i \in DOMAIN allPhrases : HandleStartPracticeWithPhrase(i)
  \/ TimePasses

SelectorSpec == InitSelector /\ [][NextSelector]_vars

\* ------------------------------------------------- the card transitions
MaxCards == 2         \* cards left behind in one session (the length of cardHistory)

\* The rest of the state, which no handler of the card transitions touches.
TransitionFrame ==
  UNCHANGED <<categories, enabledCategories, isLeechModalOpen, leechPhrase, leechCall,
              pendingTransition, selectCalls, rejectedCall, backgroundSync, toast,
              practiceCategoryFilter, apiProviderType, apiCall, now>>

\* transitionToNext without its test of practiceIsExitingRef.
TransitionToNextCall_NoGuard ==
  /\ Len(cardHistory) + Len(transitionTimers) < MaxCards
  /\ practiceIsExitingRef' = TRUE
  /\ transitionTimers' = Append(transitionTimers,
          [kind |-> "next", pool |-> practicePool,
           current |-> currentPracticePhrase])
  /\ lastCall' = [handler |-> "transitionToNext", whileExiting |-> practiceIsExitingRef,
                  ignored |-> FALSE]
  /\ UNCHANGED <<allPhrases, currentPracticePhrase, practiceReviewLog, inflight,
                 cardHistory>>
  /\ TransitionFrame

\* transitionToNext('right'), whoever calls it (onContinue, ArrowRight, onNextPhrase):
\* nothing when a transition is pending, else the flag and a 250 ms timer that closes
\* over selectNextPracticePhrase of this render.
TransitionToNextCall ==
  /\ Len(cardHistory) + Len(transitionTimers) < MaxCards
  /\ IF practiceIsExitingRef
     THEN /\ lastCall' = [handler |-> "transitionToNext", whileExiting |-> TRUE,
                          ignored |-> TRUE]
          /\ UNCHANGED <<practiceIsExitingRef, transitionTimers>>
     ELSE /\ practiceIsExitingRef' = TRUE
          /\ transitionTimers' = Append(transitionTimers,
                  [kind |-> "next", pool |-> practicePool,
                   current |-> currentPracticePhrase])
          /\ lastCall' = [handler |-> "transitionToNext", whileExiting |-> FALSE,
                          ignored |-> FALSE]
  /\ UNCHANGED <<allPhrases, currentPracticePhrase, practiceReviewLog, inflight,
                 cardHistory>>
  /\ TransitionFrame

\* handlePracticeSwipeRight (onSwipeRight, ArrowLeft): nothing when a transition is
\* pending or no card was left behind, else the flag and a 250 ms timer that closes over
\* cardHistory and allPhrases of this render.
HandlePracticeSwipeRight ==
  /\ IF practiceIsExitingRef \/ Len(cardHistory) = 0
     THEN /\ lastCall' = [handler |-> "handlePracticeSwipeRight",
                          whileExiting |-> practiceIsExitingRef, ignored |-> TRUE]
          /\ UNCHANGED <<practiceIsExitingRef, transitionTimers>>
     ELSE /\ practiceIsExitingRef' = TRUE
          /\ transitionTimers' = Append(transitionTimers,
                  [kind |-> "back", cardHistory |-> cardHistory,
                   allPhrases |-> allPhrases])
          /\ lastCall' = [handler |-> "handlePracticeSwipeRight",
                          whileExiting |-> FALSE, ignored |-> FALSE]
  /\ UNCHANGED <<allPhrases, currentPracticePhrase, practiceReviewLog, inflight,
                 cardHistory>>
  /\ TransitionFrame

\* The oldest pending 250 ms timer fires.  A timer of transitionToNext runs
\* selectNextPracticePhrase of the render that started it (the card it closed over goes
\* to cardHistory, the next card is chosen from the pool it closed over); a timer of
\* handlePracticeSwipeRight shows the last card of the history it closed over.  Both
\* end with practiceIsExitingRef.current = false.
TransitionTimerFires ==
  /\ transitionTimers # <<>>
  /\ LET timer == Head(transitionTimers)
     IN IF timer.kind = "next"
        THEN /\ cardHistory' = IF timer.current # NoPhrase
                               THEN Append(cardHistory, timer.current.id)
                               ELSE cardHistory
             /\ currentPracticePhrase' =
                  selectNextPhrase(timer.pool, timer.current.id, now)
        ELSE LET lastPhraseId == timer.cardHistory[Len(timer.cardHistory)]
                 prevPhrase == StoredIn(timer.allPhrases, lastPhraseId)
             IN /\ cardHistory' = SubSeq(cardHistory, 1, Len(cardHistory) - 1)
                /\ currentPracticePhrase' = prevPhrase
  /\ practiceIsExitingRef' = FALSE
  /\ transitionTimers' = Tail(transitionTimers)
  /\ lastCall' = [handler |-> "timer"]
  /\ UNCHANGED <<allPhrases, practiceReviewLog, inflight>>
  /\ TransitionFrame

\* handlePracticeUpdateMastery(action), up to its first await: false at once when no
\* card is shown or a transition is pending, else the review begins.
HandlePracticeUpdateMasteryCall(action) ==
  /\ ~isLeechModalOpen
  /\ Len(practiceReviewLog) + Len(inflight) < MaxLog
  /\ IF currentPracticePhrase = NoPhrase \/ practiceIsExitingRef
     THEN /\ lastCall' = [handler |-> "handlePracticeUpdateMastery", action |-> action,
                          whileExiting |-> practiceIsExitingRef, returned |-> "false"]
          /\ UNCHANGED <<allPhrases, inflight>>
     ELSE /\ LET originalPhrase == currentPracticePhrase
                 srsUpdatedPhrase ==
                   updatePhraseMastery(originalPhrase, action, categories, now)
             IN BeginUpdate(originalPhrase, action,
                            crossedIntoLeech(originalPhrase, srsUpdatedPhrase, action),
                            "practice")
          /\ lastCall' = [handler |-> "handlePracticeUpdateMastery", action |-> action,
                          whileExiting |-> FALSE, returned |-> "promise"]
  /\ UNCHANGED <<currentPracticePhrase, practiceReviewLog, practiceIsExitingRef,
                 cardHistory, transitionTimers>>
  /\ TransitionFrame

\* loadUserData for a user whose phrases are all freshly created.
InitTransition ==
  /\ InitCoordinator
  /\ allPhrases = [i \in 1..Cardinality(PhraseIds) |->
                     LET p == FreshPhrase(i, 0)
                     IN [p EXCEPT !.isMastered = isPhraseMastered(p, categories)]]

NextTransition ==
  \/ \E action \in ReviewActions : HandlePracticeUpdateMasteryCall(action)
  \/ \E k \in DOMAIN inflight : FinishUpdate(k)
  \/ TransitionToNextCall
  \/ HandlePracticeSwipeRight
  \/ TransitionTimerFires
  \/ AutoSelect

TransitionSpec == InitTransition /\ [][NextTransition]_vars

\* ------------------------------------------- the other review surfaces
\* VoiceWorkspaceModal onSuccess / onFailure: updatePhraseMasteryAndCache(phrase, 'know')
\* or (phrase, 'forgot'), up to its await.  The phrase of the modal is the card on show
\* (the effect of App.tsx, lines 1589-1593).
VoiceWorkspaceReview(action) ==
  /\ action \in {"know", "forgot"}
  /\ currentPracticePhrase # NoPhrase
  /\ Len(practiceReviewLog) + Len(inflight) < MaxLog
  /\ BeginUpdate(currentPracticePhrase, action, FALSE, "voice")
  /\ UNCHANGED <<categories, enabledCategories, currentPracticePhrase, practiceReviewLog,
                 isLeechModalOpen, leechPhrase, leechCall, practiceIsExitingRef,
                 pendingTransition, selectCalls, rejectedCall, backgroundSync,
                 surfaceVars, toast, now>>

\* onUpdateMasteryWithoutUI(phrase, action): updatePhraseMasteryAndCache(phrase, action)
\* on a phrase that the practice page hands over, up to its await.
OnUpdateMasteryWithoutUI(i, action) ==
  /\ Len(practiceReviewLog) + Len(inflight) < MaxLog
  /\ BeginUpdate(allPhrases[i], action, FALSE, "withoutUI")
  /\ UNCHANGED <<categories, enabledCategories, currentPracticePhrase, practiceReviewLog,
                 isLeechModalOpen, leechPhrase, leechCall, practiceIsExitingRef,
                 pendingTransition, selectCalls, rejectedCall, backgroundSync,
                 surfaceVars, toast, now>>

NextSurface ==
  \/ \E action \in ReviewActions : HandlePracticeUpdateMastery(action)
  \/ \E action \in {"know", "forgot"} : VoiceWorkspaceReview(action)
  \/ \E i \in DOMAIN allPhrases, action \in ReviewActions :
       OnUpdateMasteryWithoutUI(i, action)
  \/ \E k \in DOMAIN inflight : FinishUpdate(k)
  \/ AutoSelect

SurfaceSpec == Init /\ [][NextSurface]_vars

\* ------------------------------------------------ the backend that fails
\* Reviews on the practice card whose backend update is resolved or rejected.
NextBackend ==
  \/ \E action \in ReviewActions : HandlePracticeUpdateMastery(action)
  \/ \E k \in DOMAIN inflight, outcome \in BackendOutcomes : SettleUpdate(k, outcome)
  \/ AutoSelect
  \/ TimePasses

BackendSpec == Init /\ [][NextBackend]_vars

\* ------------------------------------------------------ the leech modal
\* The practice card and the leech modal, with the clock standing still.
NextLeech ==
  \/ \E action \in ReviewActions : HandlePracticeUpdateMastery(action)
  \/ \E k \in DOMAIN inflight : FinishUpdate(k)
  \/ \E action \in LeechActions : HandleLeechAction(action)
  \/ TransitionToNext
  \/ TransitionTimer
  \/ AutoSelect

LeechSpec == Init /\ [][NextLeech]_vars

\* ---------------------------------------------------- the category filter
FilterCategoryIds == {1, 2}   \* the categories of a user who has two

\* What an earlier session, with every category counted, left of a phrase of category c.
FilterItem(id, c, history) ==
  [Replay(id, history, [k \in CategoryIds |-> TRUE]) EXCEPT !.category = c]

\* Never reviewed; reviewed once and due again; mastered.
FilterHistories == {<<>>, <<"know">>, Repeat("know", 15)}

\* loadUserData for a user with two categories, either of which may be switched off in
\* the settings, and three phrases.
InitFilter ==
  /\ allPhrases \in [1..3 -> {FilterItem(i, c, h) :
                                i \in 1..3, c \in FilterCategoryIds, h \in FilterHistories}]
  /\ \A i \in 1..3 : allPhrases[i].id = i
  /\ categories = [c \in FilterCategoryIds |-> TRUE]
  /\ enabledCategories \in [FilterCategoryIds -> BOOLEAN]
  /\ currentPracticePhrase = NoPhrase
  /\ practiceReviewLog = <<>>
  /\ inflight = <<>>
  /\ isLeechModalOpen = FALSE
  /\ leechPhrase = NoPhrase
  /\ leechCall = NoCall
  /\ practiceIsExitingRef = FALSE
  /\ pendingTransition = NoTransition
  /\ selectCalls = NoSelections
  /\ rejectedCall = NoRejection
  /\ backgroundSync = NoSync
  /\ cardHistory = <<>>
  /\ transitionTimers = <<>>
  /\ lastCall = NoHandlerCall
  /\ toast = "none"
  /\ practiceCategoryFilter = AllCategories
  /\ apiProviderType = "gemini"
  /\ apiCall = NoApiCall
  /\ now = SessionStart

\* setPracticeCategoryFilter(filter), and the effect of App.tsx, lines 1527-1546, that
\* runs when the filter has changed: a fresh card from the new pool.
SetPracticeCategoryFilter(filter) ==
  /\ filter # practiceCategoryFilter
  /\ LET newPool == practicePoolOf(unmasteredPhrases(allPhrases, enabledCategories),
                                   filter)
         nextPhrase == selectNextPhrase(newPool, 0, now)
     IN /\ selectCalls' = [previous |-> selectCalls.latest,
                           latest |-> [pool |-> newPool, lastShownId |-> 0,
                                       at |-> now, result |-> nextPhrase]]
        /\ currentPracticePhrase' = nextPhrase
  /\ practiceCategoryFilter' = filter
  /\ UNCHANGED <<allPhrases, categories, enabledCategories, practiceReviewLog,
                 inflight, isLeechModalOpen, leechPhrase, leechCall,
                 practiceIsExitingRef, pendingTransition, rejectedCall, backgroundSync,
                 cardHistory, transitionTimers, lastCall, toast, apiProviderType,
                 apiCall, now>>

NextFilter ==
  \/ SelectNextPracticePhrase
  \/ \E filter \in FilterCategoryIds \cup {AllCategories} :
       SetPracticeCategoryFilter(filter)
  \/ \E c \in FilterCategoryIds : UpdateSettings(c)

FilterSpec == InitFilter /\ [][NextFilter]_vars

\* -------------------------------------------------------- the AI provider
maxRetries == 3
ProviderTypes == {"gemini", "deepseek"}
NoProvider == "null"          \* apiProviderType: null, and getFallbackProvider: null
NoError == [message |-> "none"]

\* The errors an API call is rejected with: the message, whether message.match(/{.*}/s)
\* finds nothing ("none"), something JSON.parse rejects ("invalid") or an object
\* ("valid") with error.code and error.status, and which of the four markers the
\* message includes.
ApiErrors ==
  {[message |-> "Failed to fetch", json |-> "none", code |-> 0, status |-> "",
    includes |-> {}],
   [message |-> "429 Too Many Requests", json |-> "none", code |-> 0, status |-> "",
    includes |-> {"429"}],
   [message |-> "The service is UNAVAILABLE", json |-> "none", code |-> 0,
    status |-> "", includes |-> {"UNAVAILABLE"}],
   [message |-> "{error: {code: 429, status: RESOURCE_EXHAUSTED}}", json |-> "valid",
    code |-> 429, status |-> "RESOURCE_EXHAUSTED",
    includes |-> {"429", "RESOURCE_EXHAUSTED"}],
   [message |-> "{error: {code: 503, status: UNAVAILABLE}}", json |-> "valid",
    code |-> 503, status |-> "UNAVAILABLE", includes |-> {"503", "UNAVAILABLE"}],
   [message |-> "{error: {code: 500, status: INTERNAL}} request 4290", json |-> "valid",
    code |-> 500, status |-> "INTERNAL", includes |-> {"429"}],
   [message |-> "503 {truncated", json |-> "none", code |-> 0, status |-> "",
    includes |-> {"503"}],
   [message |-> "{not json} RESOURCE_EXHAUSTED", json |-> "invalid", code |-> 0,
    status |-> "", includes |-> {"RESOURCE_EXHAUSTED"}],
   [message |-> "{not json}", json |-> "invalid", code |-> 0, status |-> "",
    includes |-> {}]}

\* errorTypeOf that classifies the errors of every provider.
errorTypeOf_AnyProvider(type, error) ==
  IF error.json = "valid"
  THEN IF error.code = 429 \/ error.status = "RESOURCE_EXHAUSTED" THEN "rate limit"
       ELSE IF error.code = 503 \/ error.status = "UNAVAILABLE"
       THEN "server overloaded"
       ELSE "generic"
  ELSE IF error.includes \cap {"429", "RESOURCE_EXHAUSTED"} # {} THEN "rate limit"
       ELSE IF error.includes \cap {"503", "UNAVAILABLE"} # {} THEN "server overloaded"
       ELSE "generic"

\* executeWithRetries, lines 212-250: errorType, which is 'generic' exactly when
\* isRetryableError stays false.
errorTypeOf(type, error) ==
  IF type # "gemini" THEN "generic"
  ELSE IF error.json = "valid"
  THEN IF error.code = 429 \/ error.status = "RESOURCE_EXHAUSTED" THEN "rate limit"
       ELSE IF error.code = 503 \/ error.status = "UNAVAILABLE"
       THEN "server overloaded"
       ELSE "generic"
  ELSE IF error.includes \cap {"429", "RESOURCE_EXHAUSTED"} # {} THEN "rate limit"
       ELSE IF error.includes \cap {"503", "UNAVAILABLE"} # {} THEN "server overloaded"
       ELSE "generic"

\* The rest of the state, which callApiWithFallback does not touch.
ApiFrame ==
  UNCHANGED <<allPhrases, categories, enabledCategories, currentPracticePhrase,
              practiceReviewLog, inflight, isLeechModalOpen, leechPhrase, leechCall,
              practiceIsExitingRef, pendingTransition, selectCalls, rejectedCall,
              backgroundSync, cardHistory, transitionTimers, lastCall, toast,
              practiceCategoryFilter, now>>

\* The locals of executeWithRetries(provider, type) when it begins: the first
\* apiCall(provider) is pending.
ExecuteWithRetries(call, stage, type) ==
  [call EXCEPT !.phase = "awaiting", !.stage = stage, !.type = type, !.attempt = 0,
               !.delay = 1000, !.invoked[stage] = 1]

\* callApiWithFallback(apiCall), up to its first await; one call at a time.
CallApiWithFallback ==
  /\ apiCall.phase \in {"idle", "returned", "thrown"}
  /\ LET call == [phase |-> "idle", stage |-> "primary", type |-> apiProviderType,
                  attempt |-> 0, delay |-> 1000,
                  invoked |-> [primary |-> 0, fallback |-> 0], slept |-> <<>>,
                  rejections |-> <<>>, primaryError |-> NoError,
                  fallbackType |-> NoProvider, startedWith |-> apiProviderType,
                  thrown |-> NoError]
     IN apiCall' = IF apiProviderType = NoProvider
                   THEN [call EXCEPT !.phase = "thrown",
                                     !.thrown = [message |-> "AI provider not initialized."]]
                   ELSE ExecuteWithRetries(call, "primary", apiProviderType)
  /\ UNCHANGED apiProviderType
  /\ ApiFrame

\* The pending apiCall(provider) is resolved: its value is returned.
ApiCallResolves ==
  /\ apiCall.phase = "awaiting"
  /\ apiCall' = [apiCall EXCEPT !.phase = "returned"]
  /\ UNCHANGED apiProviderType
  /\ ApiFrame

\* ApiCallRejects that tries the fallback without making it the active provider.
ApiCallRejects_KeepsProvider(error, jitter, fallback) ==
  /\ apiCall.phase = "awaiting"
  /\ fallback # apiCall.startedWith
  /\ LET attempt == apiCall.attempt + 1
         errorType == errorTypeOf(apiCall.type, error)
         isRetryableError == errorType # "generic"
         seen == [apiCall EXCEPT
                    !.attempt = attempt,
                    !.rejections = Append(@, [stage |-> apiCall.stage,
                                              type |-> apiCall.type,
                                              attempt |-> attempt,
                                              errorType |-> errorType,
                                              error |-> error])]
     IN IF isRetryableError /\ attempt < maxRetries
        THEN /\ apiCall' = [seen EXCEPT
                              !.phase = "sleeping",
                              !.slept = Append(@, [stage |-> apiCall.stage,
                                                   delay |-> apiCall.delay,
                                                   ms |-> apiCall.delay + jitter]),
                              !.delay = @ * 2]
             /\ UNCHANGED apiProviderType
        ELSE IF apiCall.stage = "primary"
        THEN IF fallback # NoProvider
             THEN /\ UNCHANGED apiProviderType
                  /\ apiCall' = ExecuteWithRetries(
                                  [seen EXCEPT !.primaryError = error,
                                               !.fallbackType = fallback],
                                  "fallback", fallback)
             ELSE /\ apiCall' = [seen EXCEPT !.phase = "thrown", !.primaryError = error,
                                             !.thrown = error]
                  /\ UNCHANGED apiProviderType
        ELSE /\ apiCall' = [seen EXCEPT
                              !.phase = "thrown",
                              !.thrown = [message |->
                                            <<"Primary API failed: ",
                                              apiCall.primaryError.message,
                                              ". Fallback API also failed: ",
                                              error.message>>]]
             /\ UNCHANGED apiProviderType
  /\ ApiFrame

\* The pending apiCall(provider) is rejected with error: the catch block of
\* executeWithRetries, and when it throws, the catch blocks of callApiWithFallback.
\* jitter is Math.random() * 500, and fallback is what getFallbackProvider returns for
\* the provider the call started with.
ApiCallRejects(error, jitter, fallback) ==
  /\ apiCall.phase = "awaiting"
  /\ fallback # apiCall.startedWith
  /\ LET attempt == apiCall.attempt + 1
         errorType == errorTypeOf(apiCall.type, error)
         isRetryableError == errorType # "generic"
         seen == [apiCall EXCEPT
                    !.attempt = attempt,
                    !.rejections = Append(@, [stage |-> apiCall.stage,
                                              type |-> apiCall.type,
                                              attempt |-> attempt,
                                              errorType |-> errorType,
                                              error |-> error])]
     IN IF isRetryableError /\ attempt < maxRetries
        THEN /\ apiCall' = [seen EXCEPT
                              !.phase = "sleeping",
                              !.slept = Append(@, [stage |-> apiCall.stage,
                                                   delay |-> apiCall.delay,
                                                   ms |-> apiCall.delay + jitter]),
                              !.delay = @ * 2]
             /\ UNCHANGED apiProviderType
        ELSE IF apiCall.stage = "primary"
        THEN IF fallback # NoProvider
             THEN /\ apiProviderType' = fallback
                  /\ apiCall' = ExecuteWithRetries(
                                  [seen EXCEPT !.primaryError = error,
                                               !.fallbackType = fallback],
                                  "fallback", fallback)
             ELSE /\ apiCall' = [seen EXCEPT !.phase = "thrown", !.primaryError = error,
                                             !.thrown = error]
                  /\ UNCHANGED apiProviderType
        ELSE /\ apiCall' = [seen EXCEPT
                              !.phase = "thrown",
                              !.thrown = [message |->
                                            <<"Primary API failed: ",
                                              apiCall.primaryError.message,
                                              ". Fallback API also failed: ",
                                              error.message>>]]
             /\ UNCHANGED apiProviderType
  /\ ApiFrame

\* sleep(delay + jitter) is over: the loop of executeWithRetries calls apiCall(provider)
\* again.
SleepEnds ==
  /\ apiCall.phase = "sleeping"
  /\ apiCall' = [apiCall EXCEPT !.phase = "awaiting",
                                !.invoked[apiCall.stage] = @ + 1]
  /\ UNCHANGED apiProviderType
  /\ ApiFrame

\* loadUserData, lines 311-329: the first provider of the priority list that passes its
\* health check is the active one, or none is.
InitApi ==
  /\ apiProviderType \in ProviderTypes \cup {NoProvider}
  /\ apiCall = NoApiCall
  /\ allPhrases = <<>>
  /\ categories = [c \in CategoryIds |-> TRUE]
  /\ enabledCategories = [c \in CategoryIds |-> TRUE]
  /\ currentPracticePhrase = NoPhrase
  /\ practiceReviewLog = <<>>
  /\ inflight = <<>>
  /\ isLeechModalOpen = FALSE
  /\ leechPhrase = NoPhrase
  /\ leechCall = NoCall
  /\ practiceIsExitingRef = FALSE
  /\ pendingTransition = NoTransition
  /\ selectCalls = NoSelections
  /\ rejectedCall = NoRejection
  /\ backgroundSync = NoSync
  /\ cardHistory = <<>>
  /\ transitionTimers = <<>>
  /\ lastCall = NoHandlerCall
  /\ toast = "none"
  /\ practiceCategoryFilter = AllCategories
  /\ now = SessionStart

ApiCallSettles ==
  \/ ApiCallResolves
  \/ \E error \in ApiErrors, jitter \in {0, 499},
        fallback \in ProviderTypes \cup {NoProvider} :
       ApiCallRejects(error, jitter, fallback)

NextApi ==
  \/ CallApiWithFallback
  \/ ApiCallSettles
  \/ SleepEnds

\* Every pending promise settles: the provider answers or fails, the timer of sleep
\* fires.
ApiSpec ==
  /\ InitApi
  /\ [][NextApi]_vars
  /\ WF_vars(ApiCallSettles)
  /\ WF_vars(SleepEnds)

\* ------------------------------------------------------------------ claims
\* A review call begins in this step; NewCall is that call.
ReviewBegins == Len(inflight') = Len(inflight) + 1
NewCall == inflight'[Len(inflight')]

\* C1: a review with action know adds exactly 1 to knowCount and to knowStreak, raises
\* masteryLevel by 1 (never above 7) exactly when the new knowStreak is a multiple of
\* 2, sets lastReviewedAt to now and nextReviewAt to now + interval(new masteryLevel),
\* leaves lapses unchanged, and the result is what is stored; a new item ends with
\* knowCount 1, knowStreak 1, masteryLevel 0 and nextReviewAt = now + 10 minutes.
C1_KnowStep ==
  (ReviewBegins /\ NewCall.action = "know") =>
    LET p == NewCall.phrase
        u == NewCall.updatedPhrase
    IN /\ u.knowCount = p.knowCount + 1
       /\ u.knowStreak = p.knowStreak + 1
       /\ u.masteryLevel = IF u.knowStreak % 2 = 0
                           THEN (IF p.masteryLevel < 7 THEN p.masteryLevel + 1 ELSE 7)
                           ELSE p.masteryLevel
       /\ u.lastReviewedAt = now
       /\ u.nextReviewAt = now + IntervalPolicy(u.masteryLevel)
       /\ u.lapses = p.lapses
       /\ StoredIn(allPhrases', p.id) = u
       /\ (p.lastReviewedAt = Null /\ p.knowStreak = 0 /\ p.masteryLevel = 0) =>
            /\ u.knowCount = p.knowCount + 1 /\ u.knowStreak = 1 /\ u.masteryLevel = 0
            /\ u.nextReviewAt = now + 10
C1_Know == [][C1_KnowStep]_vars

\* C1 witness: a new item has been reviewed with know and stored with knowCount 1.
C1_Witness ==
  \E k \in DOMAIN inflight :
    /\ inflight[k].action = "know"
    /\ inflight[k].phrase.lastReviewedAt = Null
    /\ inflight[k].updatedPhrase.knowCount = 1
    /\ inflight[k].updatedPhrase.masteryLevel = 0
    /\ Stored(inflight[k].phrase.id) = inflight[k].updatedPhrase

\* C2: a review with action forgot, and likewise with dont_know, sets knowStreak to 0,
\* adds exactly 1 to lapses, replaces masteryLevel by its half rounded down, leaves
\* knowCount unchanged, sets lastReviewedAt to now and nextReviewAt to now +
\* interval(new masteryLevel), and the result is what is stored; masteryLevel 3 becomes
\* 1 with nextReviewAt = now + 60 minutes.
C2_FailureStep ==
  (ReviewBegins /\ NewCall.action \in {"forgot", "dont_know"}) =>
    LET p == NewCall.phrase
        u == NewCall.updatedPhrase
    IN /\ u.knowStreak = 0
       /\ u.lapses = p.lapses + 1
       /\ 2 * u.masteryLevel <= p.masteryLevel
       /\ p.masteryLevel <= 2 * u.masteryLevel + 1
       /\ u.knowCount = p.knowCount
       /\ u.lastReviewedAt = now
       /\ u.nextReviewAt = now + IntervalPolicy(u.masteryLevel)
       /\ StoredIn(allPhrases', p.id) = u
       /\ p.masteryLevel = 3 => (u.masteryLevel = 1 /\ u.nextReviewAt = now + 60)
C2_Failure == [][C2_FailureStep]_vars

\* C2 witness: an item at masteryLevel 3 has been reviewed with dont_know and is stored
\* at masteryLevel 1.
C2_Witness ==
  \E k \in DOMAIN inflight :
    /\ inflight[k].action = "dont_know"
    /\ inflight[k].phrase.masteryLevel = 3
    /\ inflight[k].updatedPhrase.masteryLevel = 1
    /\ Stored(inflight[k].phrase.id) = inflight[k].updatedPhrase

\* A leech action is handled in this step; leechCall' holds its input and its output.
LeechActionHandled == isLeechModalOpen /\ ~isLeechModalOpen'

\* C3 as stated: masteryLevel increases only on a know review, decreases only to exactly
\* 0 and only through resetProgress, and no failure lowers it by exactly one.
C3_OriginalStep ==
  /\ ReviewBegins =>
       LET p == NewCall.phrase
           u == NewCall.updatedPhrase
       IN /\ u.masteryLevel > p.masteryLevel => NewCall.action = "know"
          /\ u.masteryLevel >= p.masteryLevel
          /\ u.masteryLevel # p.masteryLevel - 1
  /\ LeechActionHandled =>
       LET p == leechCall'.phrase
           u == leechCall'.updatedPhrase
       IN /\ u.masteryLevel <= p.masteryLevel
          /\ u.masteryLevel < p.masteryLevel => (leechCall'.action = "reset" /\ u.masteryLevel = 0)
C3_Original == [][C3_OriginalStep]_vars

\* C3 as amended: from the input to the output of every review, masteryLevel rises only
\* on know, and then by exactly 1; a failure (forgot or dont_know) replaces it by its
\* half rounded down, so it falls by exactly one from 1 and from 2 and need not reach
\* 0; the output's level is the stored one.  resetProgress yields masteryLevel 0, and
\* retryShort and postpone leave it unchanged.
C3_AmendedStep ==
  /\ ReviewBegins =>
       LET p == NewCall.phrase
           u == NewCall.updatedPhrase
       IN /\ u.masteryLevel > p.masteryLevel =>
               (NewCall.action = "know" /\ u.masteryLevel = p.masteryLevel + 1)
          /\ u.masteryLevel < p.masteryLevel => NewCall.action \in {"forgot", "dont_know"}
          /\ NewCall.action \in {"forgot", "dont_know"} =>
               (2 * u.masteryLevel <= p.masteryLevel /\ p.masteryLevel <= 2 * u.masteryLevel + 1)
          /\ StoredIn(allPhrases', p.id).masteryLevel = u.masteryLevel
  /\ LeechActionHandled =>
       LET p == leechCall'.phrase
           u == leechCall'.updatedPhrase
       IN IF leechCall'.action = "reset"
          THEN u.masteryLevel = 0
          ELSE u.masteryLevel = p.masteryLevel
C3_Amended == [][C3_AmendedStep]_vars

\* C3 witness: a failure has lowered a masteryLevel of 2 to 1 (by exactly one, not by a
\* reset and not to 0), and a resetProgress has then taken that item from tier 1 to 0.
C3_Witness ==
  /\ \E i \in DOMAIN practiceReviewLog :
       /\ practiceReviewLog[i].action \in {"forgot", "dont_know"}
       /\ practiceReviewLog[i].previousMasteryLevel = 2
       /\ practiceReviewLog[i].newMasteryLevel = 1
  /\ leechCall.action = "reset"
  /\ leechCall.phrase.masteryLevel = 1
  /\ leechCall.updatedPhrase.masteryLevel = 0

\* C4: from the input to the output of every review (know, forgot or dont_know),
\* knowCount and lapses do not decrease, and the output is what is stored; of the leech
\* actions only resetProgress lowers them.
C4_MonotoneStep ==
  /\ ReviewBegins =>
       LET p == NewCall.phrase
           u == NewCall.updatedPhrase
       IN /\ u.knowCount >= p.knowCount
          /\ u.lapses >= p.lapses
          /\ StoredIn(allPhrases', p.id).knowCount = u.knowCount
          /\ StoredIn(allPhrases', p.id).lapses = u.lapses
  /\ (LeechActionHandled /\ leechCall'.action # "reset") =>
       /\ leechCall'.updatedPhrase.knowCount = leechCall'.phrase.knowCount
       /\ leechCall'.updatedPhrase.lapses = leechCall'.phrase.lapses
C4_Monotone == [][C4_MonotoneStep]_vars

\* C4 witness: two reviews of one item are in the log, the second continuing from the
\* output of the first, and a postpone has been handled for a leech.
C4_Witness ==
  /\ Len(practiceReviewLog) = 2
  /\ practiceReviewLog[1].phraseId = practiceReviewLog[2].phraseId
  /\ practiceReviewLog[2].previousLapses = practiceReviewLog[1].newLapses
  /\ practiceReviewLog[2].previousKnowCount = practiceReviewLog[1].newKnowCount
  /\ practiceReviewLog[2].newKnowCount > practiceReviewLog[1].previousKnowCount
  /\ leechCall.action = "postpone"

\* P holds of every item record the coordinator holds: the stored items, the card shown,
\* the inputs and outputs of the suspended review calls, the leech modal's phrase, and
\* the input and output of the last leech action.
AllHeld(P(_)) ==
  /\ \A i \in DOMAIN allPhrases : P(allPhrases[i])
  /\ \A k \in DOMAIN inflight : P(inflight[k].phrase) /\ P(inflight[k].updatedPhrase)
  /\ currentPracticePhrase # NoPhrase => P(currentPracticePhrase)
  /\ leechPhrase # NoPhrase => P(leechPhrase)
  /\ leechCall # NoCall => P(leechCall.phrase) /\ P(leechCall.updatedPhrase)

StreakWithinCount(p) == p.knowStreak <= p.knowCount

NewIffNoReviews(p) == (p.lastReviewedAt = Null) <=> (p.knowCount = 0 /\ p.lapses = 0)

\* C5: in every state reached from freshly created items by reviews and leech actions
\* (retryShort, resetProgress, postpone), every item has knowStreak <= knowCount.
C5_StreakWithinCount == AllHeld(StreakWithinCount)

\* C5 witness: a leech action has been handled while a stored item has a streak of 0
\* below a positive knowCount, and the card shown has a positive streak.
C5_Witness ==
  /\ leechCall # NoCall
  /\ \E i \in DOMAIN allPhrases :
       allPhrases[i].knowStreak = 0 /\ allPhrases[i].knowCount > 0
  /\ currentPracticePhrase # NoPhrase
  /\ currentPracticePhrase.knowStreak > 0

\* C6: in every state reached from freshly created items by reviews and leech actions,
\* lastReviewedAt is absent exactly when knowCount = 0 and lapses = 0.
C6_NewIffNoReviews == AllHeld(NewIffNoReviews)

\* C6 witness: resetProgress has turned a reviewed leech into an item with no reviews
\* and no lastReviewedAt, while a reviewed item is stored.
C6_Witness ==
  /\ leechCall.action = "reset"
  /\ leechCall.phrase.lastReviewedAt # Null
  /\ leechCall.updatedPhrase.lastReviewedAt = Null
  /\ \E i \in DOMAIN allPhrases : allPhrases[i].lastReviewedAt # Null

\* The k-th suspended review call resumes in this step.
Resumes(k) == k \in DOMAIN inflight /\ inflight' = RemoveAt(inflight, k)

\* C7: a failure (forgot or dont_know) applied to an item that is a leech never reports
\* a crossing into leech, and the leech modal is opened only by a failure whose input
\* item is not a leech and whose output item is, showing that output item.
C7_EdgeStep ==
  /\ (ReviewBegins /\ NewCall.phrase.lapses >= 4) => ~NewCall.openLeech
  /\ (~isLeechModalOpen /\ isLeechModalOpen') =>
       \E k \in DOMAIN inflight :
         /\ Resumes(k)
         /\ inflight[k].action \in {"forgot", "dont_know"}
         /\ inflight[k].phrase.lapses < 4
         /\ inflight[k].updatedPhrase.lapses >= 4
         /\ leechPhrase' = inflight[k].updatedPhrase
C7_EdgeTriggered == [][C7_EdgeStep]_vars

\* C7 witness: the leech modal has been opened and resolved for an item, and a later
\* failure of that item, by then a leech, reports no crossing.
C7_Witness ==
  /\ leechCall # NoCall
  /\ ~isLeechModalOpen
  /\ \E k \in DOMAIN inflight :
       /\ inflight[k].action \in {"forgot", "dont_know"}
       /\ inflight[k].phrase.id = leechCall.phrase.id
       /\ inflight[k].phrase.lapses = 4
       /\ inflight[k].updatedPhrase.lapses = 5
       /\ ~inflight[k].openLeech

\* The number of consecutive reviews with the given failure action after which the item
\* is a leech.
RECURSIVE FailuresNeeded(_, _)
FailuresNeeded(phrase, action) ==
  IF isLeech(phrase) THEN 0
  ELSE 1 + FailuresNeeded(updatePhraseMastery(phrase, action, categories, now), action)

\* Every failure review in the log has raised lapses by exactly 1.
FailureCountsOne ==
  \A j \in DOMAIN practiceReviewLog :
    practiceReviewLog[j].action \in FailureActions =>
      practiceReviewLog[j].newLapses = practiceReviewLog[j].previousLapses + 1

FewerDontKnows(p) ==
  ~isLeech(p) => FailuresNeeded(p, "dont_know") < FailuresNeeded(p, "forgot")

SameFailures(p) ==
  ~isLeech(p) =>
    /\ FailuresNeeded(p, "dont_know") = LEECH_THRESHOLD - p.lapses
    /\ FailuresNeeded(p, "forgot") = LEECH_THRESHOLD - p.lapses

LeechIsLapses(p) == isLeech(p) = (p.lapses >= 4)

C10_CrossedExactly ==
  \A k \in DOMAIN inflight :
    LET call == inflight[k]
    IN call.surface = "practice" =>
         /\ call.openLeech <=> /\ call.action \in {"forgot", "dont_know"}
                               /\ call.phrase.lapses < 4
                               /\ call.updatedPhrase.lapses >= 4
         /\ (call.action = "dont_know" /\ call.phrase.lapses = 3) =>
              (call.updatedPhrase.lapses = 4 /\ call.openLeech)
         /\ call.action = "know" => ~call.openLeech

\* C10 witness: an item with lapses 3 is under review with dont_know, its updated item
\* has lapses 4 and the review reports the crossing.
C10_Witness ==
  \E k \in DOMAIN inflight :
    /\ inflight[k].surface = "practice"
    /\ inflight[k].action = "dont_know"
    /\ inflight[k].phrase.lapses = 3
    /\ inflight[k].updatedPhrase.lapses = 4
    /\ inflight[k].openLeech

\* A recorded selectNextPhrase call, and P of each call recorded.
IsCall(c) == "pool" \in DOMAIN c
BothCalls(P(_)) ==
  /\ IsCall(selectCalls.previous) => P(selectCalls.previous)
  /\ IsCall(selectCalls.latest) => P(selectCalls.latest)

\* The due and the new positions of a call's pool, and the position of the item with
\* the given id (0 when the pool does not hold it).
DueOf(c) == DuePositions(c.pool, c.at)
NewOf(c) == NewPositions(c.pool)
PositionOf(pool, id) ==
  IF \E i \in DOMAIN pool : pool[i].id = id
  THEN CHOOSE i \in DOMAIN pool : pool[i].id = id
  ELSE 0

NoRepeatOfEligible(c) ==
  Cardinality(DueOf(c) \cup NewOf(c)) >= 2 => c.result.id # c.lastShownId

\* C11: for a pool with at least two eligible (due or new) items and any lastShownId,
\* selectNext does not return the item whose id is lastShownId.
C11_NoRepeat == BothCalls(NoRepeatOfEligible)

\* C11 witness: the top-ranked of at least two due items was the last one shown, and
\* the call returned another due item.
C11_Witness ==
  LET c == selectCalls.latest
  IN /\ IsCall(c)
     /\ Cardinality(DueOf(c)) >= 2
     /\ PositionOf(c.pool, c.lastShownId) \in DueOf(c)
     /\ \A j \in DueOf(c) \ {PositionOf(c.pool, c.lastShownId)} :
          RanksBefore(c.pool[PositionOf(c.pool, c.lastShownId)], c.pool[j])
     /\ c.result.id # c.lastShownId
     /\ PositionOf(c.pool, c.result.id) \in DueOf(c)

\* Position i holds the item of S that is smallest under the order (nextReviewAt
\* ascending, then knowStreak ascending, then id).
SmallestIn(pool, S, i) ==
  /\ i \in S
  /\ \A j \in S \ {i} :
       \/ pool[i].nextReviewAt < pool[j].nextReviewAt
       \/ /\ pool[i].nextReviewAt = pool[j].nextReviewAt
          /\ pool[i].knowStreak < pool[j].knowStreak
       \/ /\ pool[i].nextReviewAt = pool[j].nextReviewAt
          /\ pool[i].knowStreak = pool[j].knowStreak
          /\ pool[i].id < pool[j].id

\* Position i is the first position of S in pool order.
FirstIn(S, i) == i \in S /\ \A j \in S : i <= j

DueFirst(c) ==
  DueOf(c) # {} =>
    LET p == PositionOf(c.pool, c.result.id)
        top == CHOOSE i \in DueOf(c) : SmallestIn(c.pool, DueOf(c), i)
    IN /\ p \in DueOf(c)
       /\ IF c.pool[top].id = c.lastShownId /\ Cardinality(DueOf(c)) > 1
          THEN SmallestIn(c.pool, DueOf(c) \ {top}, p)
          ELSE p = top

DueFirstThenNew(c) ==
  DueOf(c) # {} =>
    LET p == PositionOf(c.pool, c.result.id)
        top == CHOOSE i \in DueOf(c) : SmallestIn(c.pool, DueOf(c), i)
        later == NewOf(c) \ DueOf(c)
    IN IF c.pool[top].id # c.lastShownId THEN p = top
       ELSE IF Cardinality(DueOf(c)) > 1 THEN SmallestIn(c.pool, DueOf(c) \ {top}, p)
       ELSE IF later # {} THEN FirstIn(later, p)
       ELSE p = top

NewInPoolOrder(c) ==
  (DueOf(c) = {} /\ NewOf(c) # {}) =>
    LET p == PositionOf(c.pool, c.result.id)
        first == CHOOSE i \in NewOf(c) : FirstIn(NewOf(c), i)
    IN IF c.pool[first].id = c.lastShownId /\ Cardinality(NewOf(c)) > 1
       THEN FirstIn(NewOf(c) \ {first}, p)
       ELSE p = first

\* C13: when no pool item is due but some item has lastReviewedAt absent, selectNext
\* returns the new item that comes first in pool order, or the next new item in pool
\* order when the first one is lastShownId and another new item exists.
C13_NewInPoolOrder == BothCalls(NewInPoolOrder)

\* C13 witness: no item is due, the first call returned the first new item in pool
\* order although its id is not the smallest, and the next call, with that item as the
\* last one shown, returned the next new item in pool order.
C13_Witness ==
  LET c == selectCalls.latest
      b == selectCalls.previous
  IN /\ IsCall(b) /\ IsCall(c)
     /\ DueOf(b) = {} /\ DueOf(c) = {}
     /\ b.lastShownId = 0
     /\ FirstIn(NewOf(b), PositionOf(b.pool, b.result.id))
     /\ \E j \in NewOf(b) : b.pool[j].id < b.result.id
     /\ c.lastShownId = b.result.id
     /\ FirstIn(NewOf(c) \ {PositionOf(c.pool, c.lastShownId)},
                PositionOf(c.pool, c.result.id))

\* C14: selectNext returns none, and never an error, exactly when the pool has no due
\* item and no new item, which includes the empty pool; an item it returns is a member
\* of the pool and is due or new; a none result clears the current practice phrase.
C14_NoneStep ==
  (IsCall(selectCalls'.latest) /\ selectCalls' # selectCalls) =>
    LET c == selectCalls'.latest
    IN /\ c.result = NoPhrase <=> (DueOf(c) = {} /\ NewOf(c) = {})
       /\ c.pool = <<>> => c.result = NoPhrase
       /\ c.result # NoPhrase =>
            \E i \in DueOf(c) \cup NewOf(c) : c.pool[i] = c.result
       /\ c.result = NoPhrase => currentPracticePhrase' = NoPhrase
C14_NoneWhenNothingEligible == [][C14_NoneStep]_vars

\* C14 witness: a card was shown, the pool held items of which none was due or new, and
\* the call returned none and cleared the card.
C14_Witness ==
  LET c == selectCalls.latest
  IN /\ IsCall(c)
     /\ c.lastShownId # 0
     /\ c.pool # <<>>
     /\ DueOf(c) = {} /\ NewOf(c) = {}
     /\ c.result = NoPhrase
     /\ currentPracticePhrase = NoPhrase

\* The two recorded calls were made with identical (pool, lastShownId, now).
SameArguments ==
  /\ IsCall(selectCalls.previous) /\ IsCall(selectCalls.latest)
  /\ selectCalls.previous.pool = selectCalls.latest.pool
  /\ selectCalls.previous.lastShownId = selectCalls.latest.lastShownId
  /\ selectCalls.previous.at = selectCalls.latest.at

C17_Original ==
  \A i \in DOMAIN allPhrases :
    allPhrases[i].isMastered =
      (allPhrases[i].masteryLevel >= 5 /\ enabledCategories[allPhrases[i].category])

\* C18: resetProgress applied to any item, a leech in particular, yields masteryLevel 0,
\* knowStreak 0, knowCount 0, lapses 0, isMastered false, no lastReviewedAt and
\* nextReviewAt equal to the time of the call; the result is not a leech, and the
\* selector, given it from that time on, returns it as a due item that is new.
C18_ResetResult ==
  leechCall.action = "reset" =>
    LET u == leechCall.updatedPhrase
    IN /\ u.masteryLevel = 0
       /\ u.knowStreak = 0
       /\ u.knowCount = 0
       /\ u.lapses = 0
       /\ u.isMastered = FALSE
       /\ u.lastReviewedAt = Null
       /\ u.nextReviewAt = leechCall.at
       /\ u.id = leechCall.phrase.id
       /\ u.category = leechCall.phrase.category
       /\ ~isLeech(u)
       /\ NewPositions(<<u>>) = {1}
       /\ DuePositions(<<u>>, now) = {1}
       /\ selectNextPhrase(<<u>>, NoPhrase.id, now) = u

\* C18 witness: resetProgress has been handled for a leech that had been reviewed and
\* was scheduled for later, and its result is not a leech.
C18_Witness ==
  /\ leechCall.action = "reset"
  /\ isLeech(leechCall.phrase)
  /\ leechCall.phrase.lastReviewedAt # Null
  /\ leechCall.phrase.nextReviewAt > leechCall.at
  /\ ~isLeech(leechCall.updatedPhrase)

\* C19: retryShort and postpone change only nextReviewAt, to the time of the call plus
\* 10 minutes and plus 24 hours respectively; every other field of the item, the
\* counters, lastReviewedAt and isMastered among them, is left as it was.
C19_OnlyNextReviewAt ==
  leechCall.action \in {"continue", "postpone"} =>
    LET p == leechCall.phrase
        u == leechCall.updatedPhrase
    IN /\ u.nextReviewAt = leechCall.at + (IF leechCall.action = "continue"
                                           THEN 10 ELSE 24 * 60)
       /\ u = [p EXCEPT !.nextReviewAt = u.nextReviewAt]
       /\ u.masteryLevel = p.masteryLevel
       /\ u.knowStreak = p.knowStreak
       /\ u.knowCount = p.knowCount
       /\ u.lapses = p.lapses
       /\ u.lastReviewedAt = p.lastReviewedAt
       /\ u.isMastered = p.isMastered

\* C19 witness: postpone has been handled for a leech with reviews behind it, moving
\* its nextReviewAt 24 hours past the call.
C19_Witness ==
  /\ leechCall.action = "postpone"
  /\ isLeech(leechCall.phrase)
  /\ leechCall.phrase.lastReviewedAt # Null
  /\ leechCall.updatedPhrase.nextReviewAt = leechCall.at + 1440
  /\ leechCall.updatedPhrase.nextReviewAt # leechCall.phrase.nextReviewAt

\* The last entry of the log after this step is the entry of the review this step
\* applied: it carries the time of the step, and its previous and new counters are
\* those of the reviewed phrase as stored before and after the step.
NewEntryIsLast ==
  LET e == practiceReviewLog'[Len(practiceReviewLog')]
  IN /\ e.timestamp = now
     /\ e.previousLapses = Stored(e.phraseId).lapses
     /\ e.previousKnowCount = Stored(e.phraseId).knowCount
     /\ e.newLapses = StoredIn(allPhrases', e.phraseId).lapses
     /\ e.newKnowCount = StoredIn(allPhrases', e.phraseId).knowCount
     /\ e.newLapses + e.newKnowCount = e.previousLapses + e.previousKnowCount + 1

\* C20: the review log never holds more than 5000 entries; every review that is stored
\* appends its entry; an append to a log with room adds the new entry at the end and
\* keeps the others as they are; an append to a full log drops exactly the oldest
\* entry, moves every other entry one place toward the front in the same order, and
\* puts the new entry last.
C20_AppendStep ==
  LET n == Len(practiceReviewLog)
  IN /\ n <= 5000
     /\ Len(practiceReviewLog') <= 5000
     /\ allPhrases' # allPhrases =>
          /\ NewEntryIsLast
          /\ n < 5000 =>
               /\ Len(practiceReviewLog') = n + 1
               /\ \A j \in 1..n : practiceReviewLog'[j] = practiceReviewLog[j]
          /\ n = 5000 =>
               /\ Len(practiceReviewLog') = 5000
               /\ \A j \in 1..4999 : practiceReviewLog'[j] = practiceReviewLog[j + 1]
C20_BoundedFifo == [][C20_AppendStep]_vars

\* C20 witness: a full log whose two oldest entries have been evicted by two reviews
\* of this session, the second-last entry a review of phrase 1 and the last a review
\* of phrase 2.
C20_Witness ==
  /\ Len(practiceReviewLog) = 5000
  /\ practiceReviewLog[1].timestamp = 0
  /\ practiceReviewLog[1].newLapses = 3
  /\ practiceReviewLog[4999].timestamp = SessionStart
  /\ practiceReviewLog[4999].phraseId = 1
  /\ practiceReviewLog[5000].timestamp = SessionStart
  /\ practiceReviewLog[5000].phraseId = 2

\* C21 as stated: in every step of the coordinator the review log is append-only: the
\* entries it held keep their content and their order, and an entry leaves it only as
\* the oldest entry of a full log when a new entry is appended.
C21_AppendOnlyStep ==
  LET n == Len(practiceReviewLog)
      m == Len(practiceReviewLog')
  IN practiceReviewLog' # practiceReviewLog =>
       IF n < PRACTICE_REVIEW_LOG_LIMIT
       THEN m = n + 1 /\ SubSeq(practiceReviewLog', 1, n) = practiceReviewLog
       ELSE m = n /\ SubSeq(practiceReviewLog', 1, n - 1) = Tail(practiceReviewLog)
C21_Original == [][C21_AppendOnlyStep]_vars

\* The entry e is the snapshot of the review call: its previous fields are those of the
\* call's input item, its new fields those of the call's updated item, and wasNew tells
\* whether the input item had no lastReviewedAt.
EntryOf(e, call) ==
  /\ e.phraseId = call.phrase.id
  /\ e.categoryId = call.phrase.category
  /\ e.action = call.action
  /\ e.previousMasteryLevel = call.phrase.masteryLevel
  /\ e.previousKnowStreak = call.phrase.knowStreak
  /\ e.previousKnowCount = call.phrase.knowCount
  /\ e.previousLapses = call.phrase.lapses
  /\ e.previousNextReviewAt = call.phrase.nextReviewAt
  /\ e.previousIsMastered = call.phrase.isMastered
  /\ e.newMasteryLevel = call.updatedPhrase.masteryLevel
  /\ e.newKnowStreak = call.updatedPhrase.knowStreak
  /\ e.newKnowCount = call.updatedPhrase.knowCount
  /\ e.newLapses = call.updatedPhrase.lapses
  /\ e.nextReviewAt = call.updatedPhrase.nextReviewAt
  /\ e.newIsMastered = call.updatedPhrase.isMastered
  /\ e.wasNew = (call.phrase.lastReviewedAt = Null)

\* C22: every review produces exactly one log entry: the step that begins a review
\* stores its updated item and leaves the log alone, the step that ends it appends one
\* entry and no other step touches the log; the entry's previous fields are those of
\* the review's input item, its new fields those of the updated item the review
\* stored, and wasNew holds exactly when the input item had no lastReviewedAt, on the
\* path that opens the leech modal and on the ordinary path alike.
C22_EntryStep ==
  /\ ReviewBegins =>
       /\ practiceReviewLog' = practiceReviewLog
       /\ StoredIn(allPhrases', NewCall.phrase.id) = NewCall.updatedPhrase
  /\ Len(inflight') = Len(inflight) => practiceReviewLog' = practiceReviewLog
  /\ Len(inflight') < Len(inflight) =>
       \E k \in DOMAIN inflight :
         /\ Resumes(k)
         /\ Len(practiceReviewLog') = Len(practiceReviewLog) + 1
         /\ SubSeq(practiceReviewLog', 1, Len(practiceReviewLog)) = practiceReviewLog
         /\ EntryOf(practiceReviewLog'[Len(practiceReviewLog')], inflight[k])
         /\ inflight[k].openLeech => isLeechModalOpen'
C22_OneEntryPerReview == [][C22_EntryStep]_vars

\* C22 witness: the log holds the entry of a review of a new item on the ordinary path
\* and the entry of the failure that opened the leech modal, which is open.
C22_Witness ==
  /\ isLeechModalOpen
  /\ inflight = <<>>
  /\ \E i, j \in DOMAIN practiceReviewLog :
       /\ practiceReviewLog[i].wasNew
       /\ practiceReviewLog[j].previousLapses = 3
       /\ practiceReviewLog[j].isLeechAfter
       /\ practiceReviewLog[j].phraseId = leechPhrase.id

\* C23 as stated: the leech field of a review log entry is true exactly when the item
\* was not a leech before the transition and is one after it, so it is false for a
\* further failure of an item that was already a leech.
C23_Original ==
  \A j \in DOMAIN practiceReviewLog :
    practiceReviewLog[j].isLeechAfter =
      (practiceReviewLog[j].previousLapses < 4 /\ practiceReviewLog[j].newLapses >= 4)

\* C23 as amended: the leech field of a review log entry (isLeechAfter) records whether
\* the item is a leech after the transition: it is true exactly when the lapses after
\* the transition are at least 4, so it is true for the failure that crosses the
\* threshold and stays true for every later review, failure or know, of an item that
\* was already a leech.
C23_Amended ==
  \A j \in DOMAIN practiceReviewLog :
    LET e == practiceReviewLog[j]
    IN /\ e.isLeechAfter = (e.newLapses >= 4)
       /\ (e.previousLapses < 4 /\ e.newLapses >= 4) => e.isLeechAfter
       /\ e.previousLapses >= 4 => e.isLeechAfter
       /\ e.newLapses < 4 => ~e.isLeechAfter

\* C23 witness: the log holds the failure that made an item a leech and a further
\* failure of that leech, both with the leech field set.
C23_Witness ==
  /\ Len(practiceReviewLog) = 2
  /\ practiceReviewLog[1].phraseId = practiceReviewLog[2].phraseId
  /\ practiceReviewLog[1].previousLapses = 3
  /\ practiceReviewLog[1].isLeechAfter
  /\ practiceReviewLog[2].action \in FailureActions
  /\ practiceReviewLog[2].previousLapses = 4
  /\ practiceReviewLog[2].isLeechAfter

\* C24 as stated: every leech action (retryShort, resetProgress or postpone) handled by
\* the coordinator appends an entry for the leech to the review log in the same step.
C24_LeechActionStep ==
  LeechActionHandled =>
    /\ Len(practiceReviewLog') = Len(practiceReviewLog) + 1
    /\ practiceReviewLog'[Len(practiceReviewLog')].phraseId = leechCall'.phrase.id
C24_Original == [][C24_LeechActionStep]_vars

LevelInRange(p) == 0 <= p.masteryLevel /\ p.masteryLevel <= 7

\* C25: in every state reached by reviews and leech actions every item has
\* 0 <= masteryLevel <= 7, and a know on an item at tier 7 leaves it at tier 7.
C25_LevelInRange ==
  /\ AllHeld(LevelInRange)
  /\ \A j \in DOMAIN practiceReviewLog :
       /\ 0 <= practiceReviewLog[j].newMasteryLevel
       /\ practiceReviewLog[j].newMasteryLevel <= 7
       /\ (practiceReviewLog[j].action = "know" /\
           practiceReviewLog[j].previousMasteryLevel = 7) =>
            practiceReviewLog[j].newMasteryLevel = 7

\* C25 witness: an item at tier 7 was reviewed with know, its streak reached a multiple
\* of the promotion threshold, and it is stored at tier 7.
C25_Witness ==
  \E j \in DOMAIN practiceReviewLog :
    /\ practiceReviewLog[j].action = "know"
    /\ practiceReviewLog[j].previousMasteryLevel = 7
    /\ practiceReviewLog[j].newKnowStreak % 2 = 0
    /\ practiceReviewLog[j].newMasteryLevel = 7
    /\ Stored(practiceReviewLog[j].phraseId).masteryLevel = 7

\* C26: every forgot or dont_know review yields knowStreak 0, whatever the streak of
\* the item was before, and that is the streak stored for the item by the review.
C26_FailureClearsStreak ==
  /\ \A j \in DOMAIN practiceReviewLog :
       practiceReviewLog[j].action \in FailureActions =>
         practiceReviewLog[j].newKnowStreak = 0
  /\ \A k \in DOMAIN inflight :
       inflight[k].action \in FailureActions => inflight[k].updatedPhrase.knowStreak = 0

\* C26 witness: a forgot and a dont_know are in the log, one applied to an item with a
\* streak of 15 and one to an item with a streak of at most 1, both leaving streak 0.
C26_Witness ==
  \E i, j \in DOMAIN practiceReviewLog :
    /\ practiceReviewLog[i].action = "forgot"
    /\ practiceReviewLog[j].action = "dont_know"
    /\ practiceReviewLog[i].previousKnowStreak + practiceReviewLog[j].previousKnowStreak >= 15
    /\ practiceReviewLog[i].previousKnowStreak <= 1 \/ practiceReviewLog[j].previousKnowStreak <= 1
    /\ practiceReviewLog[i].newKnowStreak = 0
    /\ practiceReviewLog[j].newKnowStreak = 0

\* C27: a review of an item record that breaks an invariant of the data model is
\* rejected with InvalidItemState: the stored items (the broken record among them) and
\* the log stay as they are and the error is what the caller gets; only valid records
\* are ever reviewed; and a valid record stays valid under every review and every
\* leech action, so no record reached from a fresh item is rejected.
C27_RejectionStep ==
  /\ ValidItem(FreshPhrase(1, now))
  /\ \A i \in DOMAIN allPhrases :
       ValidItem(allPhrases[i]) =>
         /\ ValidItem(allPhrases'[i])
         /\ \A a \in LeechActions : ValidItem(applyLeechAction(allPhrases[i], a, now))
         /\ rejectedCall' # rejectedCall => rejectedCall'.phrase # allPhrases[i]
  /\ \A i \in DOMAIN allPhrases :
       allPhrases'[i] # allPhrases[i] =>
         ValidItem(allPhrases[i]) /\ rejectedCall' = rejectedCall
  /\ rejectedCall' # rejectedCall =>
       /\ rejectedCall'.error = "InvalidItemState"
       /\ ~ValidItem(rejectedCall'.phrase)
       /\ \E i \in DOMAIN allPhrases : allPhrases[i] = rejectedCall'.phrase
       /\ allPhrases' = allPhrases
       /\ practiceReviewLog' = practiceReviewLog
       /\ currentPracticePhrase' = currentPracticePhrase
C28_Original ==
  \A k \in DOMAIN inflight : inflight[k].srsUpdatedPhrase = inflight[k].updatedPhrase

\* C29 as stated: every review the coordinator begins is computed from the item as it
\* is stored, the result of the previous review of that item, so each review adds
\* exactly 1 to the stored knowCount + lapses of the item and lowers neither counter.
C29_FreshSnapshotStep ==
  ReviewBegins =>
    LET before == Stored(NewCall.phrase.id)
        after == StoredIn(allPhrases', NewCall.phrase.id)
    IN /\ NewCall.phrase = before
       /\ after.knowCount + after.lapses = before.knowCount + before.lapses + 1
       /\ after.knowCount >= before.knowCount
       /\ after.lapses >= before.lapses
C29_Original == [][C29_FreshSnapshotStep]_vars

\* C30 as stated: when the result of the background sync replaces the phrase list,
\* every stored item still has the knowCount, lapses, masteryLevel and nextReviewAt
\* that the reviews applied while the sync was in flight gave it.
C30_SyncStep ==
  (backgroundSync.pending /\ ~backgroundSync'.pending) =>
    \A i \in DOMAIN allPhrases :
      /\ allPhrases'[i].id = allPhrases[i].id
      /\ allPhrases'[i].knowCount = allPhrases[i].knowCount
      /\ allPhrases'[i].lapses = allPhrases[i].lapses
      /\ allPhrases'[i].masteryLevel = allPhrases[i].masteryLevel
      /\ allPhrases'[i].nextReviewAt = allPhrases[i].nextReviewAt
C30_Original == [][C30_SyncStep]_vars

\* C31 as stated: once the practice view shows another card, the resumption of a review
\* of the previous card (its backend sync settles) does not make the previously reviewed
\* card the current practice phrase again.
C31_NoReturnStep ==
  \A k \in DOMAIN inflight :
    (/\ Resumes(k)
     /\ currentPracticePhrase # NoPhrase
     /\ currentPracticePhrase.id # inflight[k].phrase.id)
      => currentPracticePhrase'.id # inflight[k].phrase.id
C31_Original == [][C31_NoReturnStep]_vars

\* A practice handler is called in this step.
HandlerCalled(name) == lastCall' # lastCall /\ lastCall'.handler = name

\* C32: while a card transition is pending (practiceIsExitingRef is set exactly from the
\* transitionToNext or swipe-back call that started a 250 ms timer until that timer
\* fires), handlePracticeUpdateMastery returns false and changes no item, not the review
\* log and not the current phrase; further transitionToNext and swipe-back calls are
\* ignored; at most one transition timer is pending; and the timer that fires clears
\* the flag.
C32_PendingStep ==
  /\ practiceIsExitingRef <=> (transitionTimers # <<>>)
  /\ Len(transitionTimers') <= 1
  /\ (practiceIsExitingRef /\ HandlerCalled("handlePracticeUpdateMastery")) =>
       /\ lastCall'.returned = "false"
       /\ UNCHANGED <<allPhrases, practiceReviewLog, currentPracticePhrase, inflight>>
  /\ (/\ practiceIsExitingRef
      /\ \/ HandlerCalled("transitionToNext")
         \/ HandlerCalled("handlePracticeSwipeRight")) =>
       /\ lastCall'.ignored
       /\ UNCHANGED <<transitionTimers, practiceIsExitingRef, currentPracticePhrase,
                      cardHistory>>
  /\ Len(transitionTimers') < Len(transitionTimers) => ~practiceIsExitingRef'
C32_PendingTransition == [][C32_PendingStep]_vars

\* C32 witness: a review call has just been turned away while the timer of a transition
\* was pending, with a card on show and a card left behind.
C32_Witness ==
  /\ practiceIsExitingRef
  /\ Len(transitionTimers) = 1
  /\ currentPracticePhrase # NoPhrase
  /\ cardHistory # <<>>
  /\ lastCall.handler = "handlePracticeUpdateMastery"
  /\ lastCall.whileExiting
  /\ lastCall.returned = "false"

\* C33 as stated: whenever a review with a failure action, begun from any surface, has
\* moved the stored item from not-leech to leech, the call that resumes opens the leech
\* modal for that item in its post-review state.
C33_ModalStep ==
  \A k \in DOMAIN inflight :
    (/\ Resumes(k)
     /\ inflight[k].action \in FailureActions
     /\ ~isLeech(inflight[k].phrase)
     /\ isLeech(inflight[k].updatedPhrase))
      => /\ isLeechModalOpen'
         /\ leechPhrase' = inflight[k].updatedPhrase
C33_Original == [][C33_ModalStep]_vars

\* A failed backend update is reported in this step.
SyncFailureReported == toast' # toast /\ toast' = "notifications.sync.error"

\* C34: a review is applied optimistically.  The step that begins it replaces the stored
\* item by the updated item, before the backend call settles; the step in which the
\* backend call settles, resolved or rejected, leaves every stored item as it is, appends
\* the log entry of the review and hands the updated item back to the handler (which
\* shows it on the card or in the leech modal); a rejected call changes nothing but the
\* toast.
C34_OptimisticStep ==
  /\ ReviewBegins =>
       StoredIn(allPhrases', NewCall.phrase.id) = NewCall.updatedPhrase
  /\ \A k \in DOMAIN inflight :
       Resumes(k) =>
         /\ allPhrases' = allPhrases
         /\ Len(practiceReviewLog') = Len(practiceReviewLog) + 1
         /\ EntryOf(practiceReviewLog'[Len(practiceReviewLog')], inflight[k])
         /\ IF inflight[k].openLeech
            THEN leechPhrase' = inflight[k].updatedPhrase
            ELSE currentPracticePhrase' = inflight[k].updatedPhrase
  /\ toast' # toast =>
       /\ SyncFailureReported
       /\ \E k \in DOMAIN inflight : Resumes(k)
C34_Optimistic == [][C34_OptimisticStep]_vars

\* C34 witness: the backend update of a review was rejected; the toast is on show, the
\* stored item is the updated one, and the log holds the entry of the review.
C34_Witness ==
  /\ toast = "notifications.sync.error"
  /\ inflight = <<>>
  /\ Len(practiceReviewLog) = 1
  /\ LET e == practiceReviewLog[1]
     IN /\ StoredIn(allPhrases, e.phraseId).knowCount = e.newKnowCount
        /\ StoredIn(allPhrases, e.phraseId).lapses = e.newLapses
        /\ e.newKnowCount + e.newLapses = e.previousKnowCount + e.previousLapses + 1
        /\ currentPracticePhrase = StoredIn(allPhrases, e.phraseId)

\* C35: a leech action (continue, reset, postpone) replaces the stored item only when the
\* backend update has succeeded; when the backend update fails, every stored item is
\* left as it is and the generic-error toast is shown; either way the leech modal is
\* closed, its phrase is cleared, and a transition to the next card is under way.
C35_LeechActionStep ==
  LeechActionHandled =>
    /\ leechCall'.action \in LeechActions
    /\ allPhrases' # allPhrases => leechCall'.outcome = "resolved"
    /\ leechCall'.outcome = "resolved" =>
         StoredIn(allPhrases', leechCall'.phrase.id) = leechCall'.updatedPhrase
    /\ leechCall'.outcome # "resolved" =>
         /\ allPhrases' = allPhrases
         /\ toast' = "notifications.genericError"
    /\ ~isLeechModalOpen'
    /\ leechPhrase' = NoPhrase
    /\ practiceIsExitingRef'
    /\ pendingTransition'.pending
C35_LeechActionOutcome == [][C35_LeechActionStep]_vars

\* C35 witness: a reset whose backend update failed: the toast is on show, the stored
\* item is still the leech, the modal is closed and the transition timer is pending.
C35_Witness ==
  /\ leechCall # NoCall
  /\ leechCall.action = "reset"
  /\ leechCall.outcome = "rejected"
  /\ toast = "notifications.genericError"
  /\ isLeech(Stored(leechCall.phrase.id))
  /\ ~isLeechModalOpen
  /\ pendingTransition.pending

\* The selector is called in this step; selectCalls'.latest is that call.
SelectorCalled == selectCalls' # selectCalls

\* C36: the pool handed to the selector, by selectNextPracticePhrase or by the effect of
\* the category filter, is the practice pool of the filter then in force; each of its
\* members is stored, is not mastered, belongs to a category enabled in the settings
\* and, when the filter is not 'all', to the category of the filter; and the phrase the
\* selector returns is a member of that pool, so it is neither mastered nor of a
\* disabled category.
C36_PoolStep ==
  SelectorCalled =>
    LET call == selectCalls'.latest
        members == {call.pool[i] : i \in DOMAIN call.pool}
    IN /\ call.pool = practicePool'
       /\ \A p \in members :
            /\ \E i \in DOMAIN allPhrases : allPhrases[i] = p
            /\ ~p.isMastered
            /\ enabledCategories[p.category]
            /\ practiceCategoryFilter' # AllCategories =>
                 p.category = practiceCategoryFilter'
       /\ call.result # NoPhrase =>
            /\ call.result \in members
            /\ currentPracticePhrase' = call.result
C37_ReviewedStep ==
  practiceReviewLog' # practiceReviewLog =>
    LET e == practiceReviewLog'[Len(practiceReviewLog')]
        item == StoredIn(allPhrases', e.phraseId)
    IN /\ e.timestamp = now
       /\ item.nextReviewAt >= now + 10
       /\ item.nextReviewAt > now
       /\ item.lastReviewedAt # Null
       /\ \A lastShownId \in PhraseIds \cup {0} :
            /\ selectNextPhrase(allPhrases', lastShownId, now).id # item.id
            /\ selectNextPhrase(practicePool', lastShownId, now).id # item.id
C37_NotSelectedAgain == [][C37_ReviewedStep]_vars

\* C37 witness: a failure at tier 0 has just been applied to the only item that was due
\* (the other is scheduled for later): the item waits the smallest interval, 10 minutes,
\* and the selector has nothing to return.
C37_Witness ==
  /\ practiceReviewLog # <<>>
  /\ LET e == practiceReviewLog[Len(practiceReviewLog)]
         item == Stored(e.phraseId)
     IN /\ e.timestamp = now
        /\ e.action \in FailureActions
        /\ item.masteryLevel = 0
        /\ item.nextReviewAt = now + 10
        /\ e.previousNextReviewAt <= now
        /\ selectNextPhrase(practicePool, item.id, now) = NoPhrase

\* The base delay before the n-th retry on one provider: 1 s, doubled after each retry.
RECURSIVE BaseDelay(_)
BaseDelay(n) == IF n <= 1 THEN 1000 ELSE 2 * BaseDelay(n - 1)

\* The rejection that the step just taken has handled.
LastRejection == apiCall'.rejections[Len(apiCall'.rejections)]
RejectionHandled ==
  /\ apiCall.phase = "awaiting"
  /\ Len(apiCall'.rejections) = Len(apiCall.rejections) + 1

ApiCallPending == apiCall.phase \in {"awaiting", "sleeping"}
ApiCallOver == apiCall.phase \in {"returned", "thrown"}

\* C38: callApiWithFallback always terminates.  It invokes the API call at most 3 times
\* for each provider; it retries only after an error classified as rate limit (429 /
\* RESOURCE_EXHAUSTED) or server overloaded (503 / UNAVAILABLE) of a provider of type
\* gemini, and before the n-th retry it sleeps a base delay of 1 s doubled n - 1 times
\* (plus a jitter below 0.5 s); any other error, and any error of a provider of another
\* type, ends the attempts on that provider at once; and every call that is pending
\* returns or throws in the end.
C38_RetryStep ==
  /\ apiCall'.phase # "idle" =>
       /\ apiCall'.invoked.primary <= maxRetries
       /\ apiCall'.invoked.fallback <= maxRetries
  /\ RejectionHandled =>
       LET r == LastRejection
           retried == apiCall'.phase = "sleeping"
           markers == {"429", "RESOURCE_EXHAUSTED", "503", "UNAVAILABLE"}
       IN /\ retried =>
               /\ r.type = "gemini"
               /\ r.errorType \in {"rate limit", "server overloaded"}
               /\ r.error.includes \cap markers # {}
               /\ r.attempt < maxRetries
               /\ LET nap == apiCall'.slept[Len(apiCall'.slept)]
                  IN /\ nap.delay = BaseDelay(r.attempt)
                     /\ nap.ms >= nap.delay
                     /\ nap.ms < nap.delay + 500
          /\ (r.type # "gemini" \/ r.errorType = "generic") =>
               /\ ~retried
               /\ apiCall'.phase = "thrown" \/ apiCall'.stage # apiCall.stage
          /\ r.type # "gemini" => r.attempt = 1
          /\ ~retried => apiCall'.invoked[apiCall.stage] = apiCall.invoked[apiCall.stage]
C38_Terminates == [][C38_RetryStep]_vars /\ (ApiCallPending ~> ApiCallOver)

\* C38 witness: a call on gemini with no fallback was rejected three times with
\* retryable errors: it slept 1 s and 2 s (plus jitter), invoked the API call three
\* times and threw.
C38_Witness ==
  /\ apiCall.phase = "thrown"
  /\ apiCall.startedWith = "gemini"
  /\ apiCall.fallbackType = NoProvider
  /\ apiCall.invoked.primary = 3
  /\ Len(apiCall.slept) = 2
  /\ apiCall.slept[1].delay = 1000
  /\ apiCall.slept[2].delay = 2000
  /\ Len(apiCall.rejections) = 3
  /\ apiCall.rejections[3].errorType = "rate limit"

\* The rejections of the call at one stage, oldest first.
RejectionsAt(stage) == SelectSeq(apiCall.rejections, LAMBDA r : r.stage = stage)
LastRejectionAt(stage) == RejectionsAt(stage)[Len(RejectionsAt(stage))]

\* C39: when the attempts on the primary provider have failed, the fallback provider is
\* tried at most once, with its own retries.  While the primary is tried the active
\* provider is the one the call started with.  Once the fallback is tried it is the
\* active provider, it differs from the primary, every rejection of the primary
\* came before every rejection of the fallback, and it stays active when it fails too;
\* the error then thrown carries the message of the primary error and the message of the
\* fallback error.  When there is no fallback, the error thrown is the primary error
\* itself and the active provider is the one the call started with.
C39_Fallback ==
  (apiCall.phase # "idle" /\ apiCall.startedWith # NoProvider) =>
    /\ apiCall.stage = "primary" =>
         /\ apiProviderType = apiCall.startedWith
         /\ apiCall.fallbackType = NoProvider
         /\ apiCall.invoked.fallback = 0
         /\ apiCall.phase = "thrown" =>
              /\ apiCall.thrown = LastRejectionAt("primary").error
              /\ apiCall.thrown = apiCall.primaryError
    /\ apiCall.stage = "fallback" =>
         /\ apiCall.fallbackType \in ProviderTypes \ {apiCall.startedWith}
         /\ apiProviderType = apiCall.fallbackType
         /\ apiCall.invoked.primary \in 1..maxRetries
         /\ apiCall.invoked.fallback \in 1..maxRetries
         /\ apiCall.primaryError = LastRejectionAt("primary").error
         /\ apiCall.rejections = RejectionsAt("primary") \o RejectionsAt("fallback")
         /\ \A i \in DOMAIN apiCall.rejections :
              apiCall.rejections[i].type =
                IF apiCall.rejections[i].stage = "primary" THEN apiCall.startedWith
                                                           ELSE apiCall.fallbackType
         /\ apiCall.phase = "thrown" =>
              apiCall.thrown.message =
                <<"Primary API failed: ", apiCall.primaryError.message,
                  ". Fallback API also failed: ",
                  LastRejectionAt("fallback").error.message>>

\* C39 witness: the primary deepseek failed at its first attempt, the fallback gemini
\* was retried twice and failed too; gemini is the active provider and the thrown error
\* carries both messages.
C39_Witness ==
  /\ apiCall.phase = "thrown"
  /\ apiCall.startedWith = "deepseek"
  /\ apiCall.stage = "fallback"
  /\ apiProviderType = "gemini"
  /\ apiCall.invoked.primary = 1
  /\ apiCall.invoked.fallback = 3
  /\ apiCall.primaryError.message = "Failed to fetch"
  /\ apiCall.thrown.message[2] = "Failed to fetch"
  /\ apiCall.thrown.message[4] = "{error: {code: 503, status: UNAVAILABLE}}"

====
